---- MODULE Spec2Model ----
(***************************************************************************)
(* Memorandum: a sharded in-memory key-value store with per-entry TTL, an  *)
(* expiry min-heap per shard, and a buffered write-ahead log.              *)
(*                                                                         *)
(* Strings are sequences of bytes (0..255), 32-bit words are tuples of     *)
(* four bytes in little-endian order, so that hashing and the binary WAL   *)
(* format are computed as the code computes them.                          *)
(***************************************************************************)
EXTENDS Integers, Sequences, FiniteSets, TLC

\* ------------------------------------------------------------------ bounds

\* Seconds of wall-clock time the model lets pass.
MaxTime == 4
\* Largest ttl (seconds) a client passes to Set.
MaxTTL == 2
\* shard_count of the configuration.
NumShards == 2
\* cleanup_interval of the configuration, in seconds.
CleanupInterval == 2

\* Keys "a" and "b": the same shard when NumShards = 2.
Keys == {<<97>>, <<98>>}
\* Keys "a" and "d" of the concurrent producers: different shards when
\* NumShards = 2.
LogKeys == {<<97>>, <<100>>}
\* Values "x", "y".
Values == {<<120>>, <<121>>}
TTLs == 0..MaxTTL

\* The empty string "".
EmptyString == << >>

\* An absent value, and a present one.
None == << >>
Some(x) == <<x>>

\* ------------------------------------------------------------- CRC32-IEEE

\* Bit of a natural at the place of weight w.
Bit(a, w) == (a \div w) % 2

\* Bitwise exclusive or of two bytes.
Xor(a, b) ==
    ((Bit(a, 1) + Bit(b, 1)) % 2) + (2 * ((Bit(a, 2) + Bit(b, 2)) % 2))
        + (4 * ((Bit(a, 4) + Bit(b, 4)) % 2)) + (8 * ((Bit(a, 8) + Bit(b, 8)) % 2))
        + (16 * ((Bit(a, 16) + Bit(b, 16)) % 2)) + (32 * ((Bit(a, 32) + Bit(b, 32)) % 2))
        + (64 * ((Bit(a, 64) + Bit(b, 64)) % 2)) + (128 * ((Bit(a, 128) + Bit(b, 128)) % 2))

\* Bytewise exclusive or of two 32-bit words.  (The words are bound to their
\* values first.)
Xor32(x, y) ==
    CHOOSE r \in {<<Xor(a[1], b[1]), Xor(a[2], b[2]), Xor(a[3], b[3]), Xor(a[4], b[4])>> :
                     a \in {x}, b \in {y}} : TRUE

\* A 32-bit word shifted right by one bit.
Shr1(x) ==
    <<(x[1] \div 2) + (128 * (x[2] % 2)), (x[2] \div 2) + (128 * (x[3] % 2)),
      (x[3] \div 2) + (128 * (x[4] % 2)), x[4] \div 2>>

\* A 32-bit word shifted right by eight bits.
Shr8(x) == <<x[2], x[3], x[4], 0>>

\* The reversed IEEE polynomial 0xEDB88320.
IEEEPoly == <<32, 131, 184, 237>>

\* One of the eight steps that make a table entry.  (The word is bound to
\* its value before the step is taken.)
crcBit(c) ==
    CHOOSE r \in {IF w[1] % 2 = 1 THEN Xor32(IEEEPoly, Shr1(w)) ELSE Shr1(w) : w \in {c}} : TRUE

\* The table entry of byte b.
tableEntry(b) ==
    crcBit(crcBit(crcBit(crcBit(crcBit(crcBit(crcBit(crcBit(<<b, 0, 0, 0>>))))))))

\* hash/crc32's IEEE table.
IEEETable == [b \in 0..255 |-> tableEntry(b)]

RECURSIVE crcUpdate(_, _)
crcUpdate(crc, bytes) ==
    IF bytes = << >> THEN crc
    ELSE CHOOSE r \in {crcUpdate(Xor32(IEEETable[Xor(c[1], Head(bytes))], Shr8(c)), Tail(bytes)) :
                          c \in {crc}} : TRUE

\* crc32.ChecksumIEEE: a 32-bit word.
ChecksumIEEE(bytes) ==
    Xor32(crcUpdate(<<255, 255, 255, 255>>, bytes), <<255, 255, 255, 255>>)

\* A 32-bit word modulo a small positive n (int is 64 bits wide: the
\* conversion int(hash) keeps the value non-negative).
Mod32(x, n) ==
    LET step(acc, byte) == ((256 * acc) + byte) % n
    IN  step(step(step(step(0, x[4]), x[3]), x[2]), x[1])

\* ------------------------------------------------------------ expiry heap
\* A MinHeap is a sequence of heapEntry records [key, valueWithTTL]; the
\* code's positions 0..n-1 are the sequence's 1..n.  The index field of a
\* heapEntry always equals the entry's position and is not modelled.

ValueWithTTL(value, expiration) == [Value |-> value, Expiration |-> expiration]

heapEntry(key, vt) == [key |-> key, valueWithTTL |-> vt]

\* MinHeap.Less, on positions i, j (from 0).
Less(h, i, j) == h[i + 1].valueWithTTL.Expiration < h[j + 1].valueWithTTL.Expiration

\* MinHeap.Swap, on positions i, j (from 0).
Swap(h, i, j) == [h EXCEPT ![i + 1] = h[j + 1], ![j + 1] = h[i + 1]]

RECURSIVE up(_, _)
\* container/heap.up: sift position j towards the root.
up(h, j) ==
    IF j = 0 THEN h
    ELSE LET i == (j - 1) \div 2
         IN  IF ~Less(h, j, i) THEN h ELSE up(Swap(h, i, j), i)

RECURSIVE down(_, _, _)
\* container/heap.down: sift position i towards the leaves of h[0..n-1];
\* the result is the heap and the position the element ends at.
down(h, i, n) ==
    LET j1 == (2 * i) + 1
    IN  IF j1 >= n THEN [h |-> h, i |-> i]
        ELSE LET j == IF j1 + 1 < n /\ Less(h, j1 + 1, j1) THEN j1 + 1 ELSE j1
             IN  IF ~Less(h, j, i) THEN [h |-> h, i |-> i]
                 ELSE down(Swap(h, i, j), j, n)

\* heap.Push(&h, x): MinHeap.Push appends, then up.
heapPush(h, x) == up(Append(h, x), Len(h))

\* heap.Pop(&h): swap the root with the last, down, MinHeap.Pop takes the last.
heapPop(h) ==
    LET n  == Len(h) - 1
        h2 == down(Swap(h, 0, n), 0, n).h
    IN  [item |-> h2[n + 1], heap |-> SubSeq(h2, 1, n)]

\* heap.Remove(&h, i).
heapRemove(h, i) ==
    LET n  == Len(h) - 1
        h1 == Swap(h, i, n)
        d  == down(h1, i, n)
        h2 == IF n = i THEN h
              ELSE IF d.i > i THEN d.h ELSE up(d.h, i)
    IN  SubSeq(h2, 1, n)

\* MinHeap.RemoveByKey: remove the first entry that carries the key.
RemoveByKey(h, key) ==
    LET hits == {i \in 0..(Len(h) - 1) : h[i + 1].key = key}
    IN  IF hits = {} THEN h
        ELSE heapRemove(h, CHOOSE i \in hits : \A j \in hits : i <= j)

\* ------------------------------------------------------------------ shard
\* A mapShard is [store, heap]: store is a function from the keys present
\* to ValueWithTTL records.

EmptyShard == [store |-> << >>, heap |-> << >>]

\* NewShardedInMemoryStore.
NewShards == [i \in 0..(NumShards - 1) |-> EmptyShard]

\* getShard: the index of the key's shard.
getShard(key) == Mod32(ChecksumIEEE(key), NumShards)

ShardIndex == [k \in Keys \cup LogKeys |-> getShard(k)]

\* map assignment m[key] = vt.
MapPut(m, key, vt) == [k \in (DOMAIN m) \cup {key} |-> IF k = key THEN vt ELSE m[k]]

\* delete(m, key).
MapDelete(m, key) == [k \in (DOMAIN m) \ {key} |-> m[k]]

\* Set's expiration: 0 for ttl = 0, otherwise now + ttl.
SetExpiration(ttl, t) == IF ttl = 0 THEN 0 ELSE t + ttl

\* Set as it would be without the removal of the key's old heap node.
SetShardKeepsOldNode(sh, key, value, ttl, t) ==
    LET vt == ValueWithTTL(value, SetExpiration(ttl, t))
    IN  [store |-> MapPut(sh.store, key, vt),
         heap  |-> heapPush(sh.heap, heapEntry(key, vt))]

\* Set, on the key's shard, at time t.
SetShard(sh, key, value, ttl, t) ==
    LET exists == key \in DOMAIN sh.store
        h1     == IF exists THEN RemoveByKey(sh.heap, key) ELSE sh.heap
        vt     == ValueWithTTL(value, SetExpiration(ttl, t))
    IN  [store |-> MapPut(sh.store, key, vt),
         heap  |-> heapPush(h1, heapEntry(key, vt))]

\* Delete as it would be without the removal of the key's heap node.
DeleteShardKeepsHeapNode(sh, key) ==
    [store |-> MapDelete(sh.store, key), heap |-> sh.heap]

\* Delete, on the key's shard.
DeleteShard(sh, key) ==
    [store |-> MapDelete(sh.store, key), heap |-> RemoveByKey(sh.heap, key)]

\* Get's test as it would be one second late.
GetExpiredLate(vt, t) == vt.Expiration > 0 /\ t > vt.Expiration + 1

\* Get's test on the entry it read: the entry is expired at time t.
GetExpired(vt, t) == vt.Expiration > 0 /\ t > vt.Expiration

\* Cleanup's test for stopping: the popped entry is in the future.
CleanupStops(vt, t) == vt.Expiration > t

\* Cleanup's test as it would be without the guard for expiration 0.
CleanupDeletesAnyPopped(vt, t) == t > vt.Expiration

\* Cleanup's test for deleting the popped entry's key from the map.
CleanupDeletes(vt, t) == vt.Expiration > 0 /\ t > vt.Expiration

RECURSIVE CleanupLoop(_, _)
\* Cleanup's loop over one shard's heap, at time t.
CleanupLoop(sh, t) ==
    IF Len(sh.heap) = 0 THEN sh
    ELSE LET p == heapPop(sh.heap)
         IN  IF CleanupStops(p.item.valueWithTTL, t)
             THEN [sh EXCEPT !.heap = heapPush(p.heap, p.item)]
             ELSE CleanupLoop(
                    [store |-> IF CleanupDeletes(p.item.valueWithTTL, t)
                               THEN MapDelete(sh.store, p.item.key)
                               ELSE sh.store,
                     heap  |-> p.heap], t)

\* ------------------------------------------------------------- WAL records

\* The strings "set" and "delete".
ActionSet == <<115, 101, 116>>
ActionDelete == <<100, 101, 108, 101, 116, 101>>

\* The zero value of a uint32.
Zero32 == <<0, 0, 0, 0>>

WriteAheadLogEntry(action, key, value, ttl, timestamp, checksum) ==
    [Action |-> action, Key |-> key, Value |-> value, TTL |-> ttl,
     Timestamp |-> timestamp, Checksum |-> checksum]

\* The entry Set builds (Checksum is left zero: the consumer fills it in).
SetEntry(key, value, ttl, t) == WriteAheadLogEntry(ActionSet, key, value, ttl, t, Zero32)

\* The entry Delete builds: Value "", TTL 0, Checksum zero.
DeleteEntry(key, t) == WriteAheadLogEntry(ActionDelete, key, EmptyString, 0, t, Zero32)

\* The consumer's entry.Checksum = crc32.ChecksumIEEE([]byte(entry.Key + entry.Value)).
WithChecksum(entry) == [entry EXCEPT !.Checksum = ChecksumIEEE(entry.Key \o entry.Value)]

\* --------------------------------------------------- binary record format

\* binary.Write, little-endian, of a non-negative int32 or a uint32 below 2^31.
LE32(n) == <<n % 256, (n \div 256) % 256, (n \div 65536) % 256, (n \div 16777216) % 256>>

\* binary.Write, little-endian, of an int64 in 0 .. 2^31 - 1.
LE64(n) == LE32(n) \o <<0, 0, 0, 0>>

\* encodeEntry: the bytes of one record.
encodeEntry(entry) ==
    LE32(Len(entry.Action)) \o entry.Action
        \o LE32(Len(entry.Key)) \o entry.Key
        \o LE32(Len(entry.Value)) \o entry.Value
        \o LE64(entry.TTL) \o LE64(entry.Timestamp) \o entry.Checksum

RECURSIVE encodeAll(_)
\* flush's loop: the bytes of the buffered entries, in order.
encodeAll(entries) ==
    IF entries = << >> THEN << >>
    ELSE encodeEntry(Head(entries)) \o encodeAll(Tail(entries))

\* io.ReadFull of n bytes at offset pos (from 0): nil when n bytes are there
\* (or n = 0), io.EOF when none is, io.ErrUnexpectedEOF when fewer than n are.
ReadErr(bytes, pos, n) ==
    IF n = 0 \/ Len(bytes) - pos >= n THEN "nil"
    ELSE IF Len(bytes) - pos <= 0 THEN "EOF"
    ELSE "ErrUnexpectedEOF"

\* The bytes io.ReadFull read.
ReadBytes(bytes, pos, n) == SubSeq(bytes, pos + 1, pos + n)

\* The int32 of four little-endian bytes; negative when the top bit is set.
Int32(b) ==
    IF b[4] >= 128
    THEN (b[1] + 256 * b[2] + 65536 * b[3] + 16777216 * (b[4] - 128)) - 2147483647 - 1
    ELSE b[1] + 256 * b[2] + 65536 * b[3] + 16777216 * b[4]

\* The int64 of eight little-endian bytes, for the values 0 .. 2^31 - 1 that
\* encodeEntry writes in the model.
Int64(b) == b[1] + 256 * b[2] + 65536 * b[3] + 16777216 * b[4]

\* decodeEntry's reading of a length and of the bytes of that length, at
\* offset pos: [err, bytes, pos].  make([]byte, n) panics for a negative n.
ReadString(bytes, pos) ==
    IF ReadErr(bytes, pos, 4) # "nil"
    THEN [err |-> ReadErr(bytes, pos, 4), bytes |-> << >>, pos |-> pos]
    ELSE LET n == Int32(ReadBytes(bytes, pos, 4))
         IN  IF n < 0 THEN [err |-> "panic", bytes |-> << >>, pos |-> pos + 4]
             ELSE IF ReadErr(bytes, pos + 4, n) # "nil"
             THEN [err |-> ReadErr(bytes, pos + 4, n), bytes |-> << >>, pos |-> pos + 4]
             ELSE [err |-> "nil", bytes |-> ReadBytes(bytes, pos + 4, n), pos |-> pos + 4 + n]

\* decodeEntry's reading of TTL, Timestamp and Checksum at offset pos.
ReadTail(bytes, pos) ==
    IF ReadErr(bytes, pos, 8) # "nil" THEN [err |-> ReadErr(bytes, pos, 8)]
    ELSE IF ReadErr(bytes, pos + 8, 8) # "nil" THEN [err |-> ReadErr(bytes, pos + 8, 8)]
    ELSE IF ReadErr(bytes, pos + 16, 4) # "nil" THEN [err |-> ReadErr(bytes, pos + 16, 4)]
    ELSE [err |-> "nil",
          TTL |-> Int64(ReadBytes(bytes, pos, 8)),
          Timestamp |-> Int64(ReadBytes(bytes, pos + 8, 8)),
          Checksum |-> ReadBytes(bytes, pos + 16, 4)]

\* decodeEntry at offset pos: [err, entry, pos], pos the offset after the record.
decodeEntry(bytes, pos) ==
    LET a == ReadString(bytes, pos)
        k == ReadString(bytes, a.pos)
        v == ReadString(bytes, k.pos)
        z == ReadTail(bytes, v.pos)
        failed(err) == [err |-> err, entry |-> << >>, pos |-> pos]
    IN  IF a.err # "nil" THEN failed(a.err)
        ELSE IF k.err # "nil" THEN failed(k.err)
        ELSE IF v.err # "nil" THEN failed(v.err)
        ELSE IF z.err # "nil" THEN failed(z.err)
        ELSE [err |-> "nil",
              entry |-> WriteAheadLogEntry(a.bytes, k.bytes, v.bytes, z.TTL, z.Timestamp, z.Checksum),
              pos |-> v.pos + 20]

\* IsExpired as it would be if the record expired at its deadline already.
IsExpiredAtDeadline(entry, t) == t >= entry.Timestamp + entry.TTL

\* WriteAheadLogEntry.IsExpired at time t.
IsExpired(entry, t) == t > entry.Timestamp + entry.TTL

\* RecoverFromWAL's test for skipping a record.
RecoverSkips(entry, t) == entry.TTL # 0 /\ IsExpired(entry, t)

\* RecoverFromWAL's switch: Set or Delete on the store, at time t; a record
\* with another action changes nothing.
RecoverApply(sh, entry, t) ==
    IF entry.Action = ActionSet
    THEN [sh EXCEPT ![getShard(entry.Key)] = SetShard(@, entry.Key, entry.Value, entry.TTL, t)]
    ELSE IF entry.Action = ActionDelete
    THEN [sh EXCEPT ![getShard(entry.Key)] = DeleteShard(@, entry.Key)]
    ELSE sh

\* RecoverFromWAL as it would be without the integrity test.
ChecksumUnchecked(entry) == TRUE

\* RecoverFromWAL's integrity test on a decoded record.
ChecksumValid(entry) == entry.Checksum = ChecksumIEEE(entry.Key \o entry.Value)

RECURSIVE RecoverLoop(_, _, _, _)
\* RecoverFromWAL's loop from offset pos, at time t: [shards, err, isWalRecovery],
\* err "nil" for success.  The flag is cleared only on the way out through EOF.
RecoverLoop(sh, bytes, pos, t) ==
    LET d == decodeEntry(bytes, pos)
    IN  IF d.err = "EOF"
        THEN [shards |-> sh, err |-> "nil", isWalRecovery |-> FALSE]
        ELSE IF d.err # "nil"
        THEN [shards |-> sh, err |-> d.err, isWalRecovery |-> TRUE]
        ELSE IF ~ChecksumValid(d.entry)
        THEN [shards |-> sh, err |-> "invalid checksum", isWalRecovery |-> TRUE]
        ELSE IF RecoverSkips(d.entry, t)
        THEN RecoverLoop(sh, bytes, d.pos, t)
        ELSE RecoverLoop(RecoverApply(sh, d.entry, t), bytes, d.pos, t)

\* RecoverFromWAL on a new store.
RecoverFromWAL(bytes, t) == RecoverLoop(NewShards, bytes, 0, t)

\* ------------------------------------------------------------------ state

VARIABLES
    shards,        \* the store's shards: index -> [store, heap]
    now,           \* time.Now().Unix()
    nextCleanup,   \* the second at which the cleanup ticker fires next
    cleanupPos,    \* the shard the running Cleanup pass handles next (0: none running)
    getPending,    \* the Get that read its key as expired and is about to Delete it
                   \*   (with the last write it saw, for the history), or None
    ret,           \* history: the Get or Delete that has just returned, or None
    lastWrite,     \* history: key -> the ValueWithTTL of the last Set on the key
                   \*   since which Delete was not called on it, or None
    walEnabled,    \* wal_enabled of the configuration (false: DummyWAL)
    isWalRecovery, \* the package's replay flag
    queue,         \* WAL.queue: the channel's buffered entries
    queueClosed,   \* close(wal.queue) has been called
    crashed,       \* the process panicked (send on a closed channel)
    enqueued,      \* history: the entries Log put on the queue, in order
    held,          \* the entry the consumer has received and not yet buffered, or None
    consumerDone,  \* startQueueProcessor has returned (queueWG.Done)
    buffer,        \* WAL.buffer
    file,          \* the bytes of the WAL file
    tickPending,   \* a tick is waiting in flushTicker.C
    phase,         \* where Close of the store is: "open" (not called), "cleaned",
                   \*   "stopped", "closed", "done" (returned)
    prod,          \* producer -> the operation it has applied to its shard and not
                   \*   yet logged ([entry, shard, locked]), or None
    applied,       \* history: the entries of the producers' operations, in the
                   \*   order in which they were applied to the shards
    pendingAtClose,\* history: the numbers of entries in the queue (or with the
                   \*   consumer) and in the buffer when WAL.Close was called, or None
    closedShards,  \* history: the shards when Close returned
    recovered,     \* the result of LoadConfigAndCreateStore after Close, or None
    damage,        \* history: what was done to the file after Close, or None
    cmNodes,       \* ClusterManager.Nodes: the registry, a sequence of Node
    nodesFile,     \* the addresses listed in cluster/nodes.json
    alive,         \* the addresses whose RPC server answers Ping
    nodeData,      \* address -> the map of the store behind that node's RPCService
    cres,          \* history: the NodeService call that has just returned, or None
    modTime,       \* the modification time of cluster/nodes.json
    lastModTime,   \* ClusterManager.LastModTime (-1: the zero time)
    nextSync,      \* the second the config monitor's ticker fires next
    nextHealth,    \* the second the health check's ticker fires next
    plan,          \* syncWithConfig: what is left of toAdd and toRemove
    answersSince,  \* history: address -> since when its node answers Ping
    listedSince,   \* history: address -> since when the node file lists it
    goneSince,     \* history: address -> since when the node file does not list it
    marked,        \* history: the addresses the health check marked inactive
    cfgFile,       \* config/config.json: Some(config), or None while it cannot be loaded
    clusterCfg,    \* the config StartHTTPServer loaded for the cluster routes
    http,          \* history: the HTTP request that was just answered, or None
    mutex,         \* ClusterManager.Mutex: Some(the task that holds it), or None
    syncPc,        \* where the config monitor is in syncWithConfig
    healthPos,     \* the node the health check pings next (0: no pass running)
    unlocks,       \* history: the Unlock calls of the monitor's pass so far
    flushDone      \* WAL.flushDone is closed: startFlushRoutine has returned

storeVars == <<shards, now, nextCleanup, cleanupPos, getPending, ret, lastWrite>>
walVars == <<walEnabled, isWalRecovery, queue, queueClosed, crashed, enqueued>>
pipeVars == <<held, consumerDone, buffer, file, tickPending, phase>>
histVars == <<prod, applied, pendingAtClose, closedShards, recovered, damage>>
lockVars == <<mutex, syncPc, healthPos, unlocks>>
memberVars == <<modTime, lastModTime, nextSync, nextHealth, plan, answersSince, listedSince,
               goneSince, marked, lockVars>>
httpVars == <<cfgFile, clusterCfg, http>>
clusterVars == <<cmNodes, nodesFile, alive, nodeData, cres, memberVars, httpVars, flushDone>>
vars == <<storeVars, walVars, pipeVars, histVars, clusterVars>>

\* The addresses of the cluster's nodes.
Addresses == {"A", "B", "C"}

\* heartbeat_interval and configCheck_interval of the configuration, in
\* seconds.
HeartbeatInterval == 1
ConfigCheckInterval == 2

\* The history of an address before anything is known of it.
Unlisted == [a \in Addresses |-> None]

\* The fields of the configuration that the HTTP servers read.
Config(authEnabled, authToken) == [AuthEnabled |-> authEnabled, AuthToken |-> authToken]

\* The mutex is free, and neither the config monitor nor the health check
\* is in a pass.
LockIdle ==
    /\ mutex = None
    /\ syncPc = "idle"
    /\ healthPos = 0
    /\ unlocks = 0

\* auth_enabled = false, and no request yet.
HttpIdle ==
    /\ cfgFile = Some(Config(FALSE, EmptyString))
    /\ clusterCfg = Config(FALSE, EmptyString)
    /\ http = None

\* No cluster: NewClusterManager's empty registry, no node file entry, no node.
ClusterIdle ==
    /\ modTime = 0
    /\ lastModTime = -1
    /\ nextSync = ConfigCheckInterval
    /\ nextHealth = HeartbeatInterval
    /\ plan = << >>
    /\ answersSince = Unlisted
    /\ listedSince = Unlisted
    /\ goneSince = Unlisted
    /\ marked = {}
    /\ LockIdle
    /\ flushDone = FALSE
    /\ HttpIdle
    /\ cmNodes = << >>
    /\ nodesFile = << >>
    /\ alive = {}
    /\ nodeData = [a \in Addresses |-> << >>]
    /\ cres = None

\* WAL_bufferSize of the configuration: the queue's capacity and the number
\* of buffered entries that forces a flush.
BufferSize == 2

NoLastWrite == [k \in Keys \cup LogKeys |-> None]

\* The goroutines that call Set and Delete concurrently.
Producers == {1, 2}

NoProducer == [p \in Producers |-> None]

\* --------------------------------------------------------------- WAL.Log

\* s.wal.Log(entry): DummyWAL.Log does nothing; WAL.Log sends on the queue,
\* which blocks while the queue is full and panics once it is closed.
Log(entry) ==
    IF ~walEnabled
    THEN UNCHANGED <<queue, crashed, enqueued>>
    ELSE IF queueClosed
    THEN crashed' = TRUE /\ UNCHANGED <<queue, enqueued>>
    ELSE /\ Len(queue) < BufferSize
         /\ queue' = Append(queue, entry)
         /\ enqueued' = Append(enqueued, entry)
         /\ UNCHANGED crashed

\* s.wal.Log as it would be if it dropped the entry.
LogNothing(entry) == UNCHANGED <<queue, crashed, enqueued>>

\* if !isWalRecovery { s.wal.Log(entry) }
LogUnlessRecovery(entry) ==
    IF isWalRecovery THEN UNCHANGED <<queue, crashed, enqueued>> ELSE Log(entry)

\* ------------------------------------------------------- store operations

\* Set(key, value, ttl): under the shard's write lock.
Set(key, value, ttl) ==
    /\ ~crashed
    /\ shards' = [shards EXCEPT ![ShardIndex[key]] = SetShard(@, key, value, ttl, now)]
    /\ LogUnlessRecovery(SetEntry(key, value, ttl, now))
    /\ lastWrite' = [lastWrite EXCEPT ![key] = Some(ValueWithTTL(value, SetExpiration(ttl, now)))]
    /\ ret' = None
    /\ UNCHANGED <<now, nextCleanup, cleanupPos, getPending>>
    /\ UNCHANGED <<walEnabled, isWalRecovery, queueClosed>>
    /\ UNCHANGED <<pipeVars, histVars>>
    /\ UNCHANGED clusterVars

\* Delete(key): under the shard's write lock.
Delete(key) ==
    /\ ~crashed
    /\ shards' = [shards EXCEPT ![ShardIndex[key]] = DeleteShard(@, key)]
    /\ LogUnlessRecovery(DeleteEntry(key, now))
    /\ lastWrite' = [lastWrite EXCEPT ![key] = None]
    /\ ret' = Some([op |-> "delete", key |-> key])
    /\ UNCHANGED <<now, nextCleanup, cleanupPos, getPending>>
    /\ UNCHANGED <<walEnabled, isWalRecovery, queueClosed>>
    /\ UNCHANGED <<pipeVars, histVars>>
    /\ UNCHANGED clusterVars

\* What Get returns: the value it read from the map m and true, or "" and
\* false (the key was absent, or was expired and has been deleted).
GetReturn(key, exists, m) ==
    IF exists THEN [value |-> m[key].Value, ok |-> TRUE]
    ELSE [value |-> EmptyString, ok |-> FALSE]

\* History: the Get of key that has just returned r, having read the map when
\* the last write to the key was seen.
GetDone(key, r, seen) ==
    Some([op |-> "get", key |-> key, value |-> r.value, ok |-> r.ok, seen |-> seen])

\* Get(key), first part: read the entry under the read lock, release the
\* lock, and return unless the entry is expired.
GetRead(key) ==
    /\ ~crashed
    /\ getPending = None
    /\ LET m      == shards[ShardIndex[key]].store
           exists == key \in DOMAIN m
       IN  IF exists /\ GetExpired(m[key], now)
           THEN getPending' = Some([key |-> key, seen |-> lastWrite[key]]) /\ ret' = None
           ELSE getPending' = None /\ ret' = GetDone(key, GetReturn(key, exists, m), lastWrite[key])
    /\ UNCHANGED <<shards, now, nextCleanup, cleanupPos, lastWrite>>
    /\ UNCHANGED <<walVars, pipeVars, histVars>>
    /\ UNCHANGED clusterVars

\* Get(key), second part: the entry read was expired: s.Delete(key), then
\* return ("", false).
GetDelete ==
    /\ ~crashed
    /\ getPending # None
    /\ LET key == getPending[1].key
       IN  /\ shards' = [shards EXCEPT ![ShardIndex[key]] = DeleteShard(@, key)]
           /\ LogUnlessRecovery(DeleteEntry(key, now))
           /\ lastWrite' = [lastWrite EXCEPT ![key] = None]
           /\ ret' = GetDone(key, GetReturn(key, FALSE, << >>), getPending[1].seen)
    /\ getPending' = None
    /\ UNCHANGED <<now, nextCleanup, cleanupPos>>
    /\ UNCHANGED <<walEnabled, isWalRecovery, queueClosed>>
    /\ UNCHANGED <<pipeVars, histVars>>
    /\ UNCHANGED clusterVars

\* Cleanup, one shard of the pass: lock the shard, read the time, run the
\* loop, unlock.  A pass starts when the ticker of StartCleanupRoutine fires
\* (the ticker then fires again CleanupInterval later) or when Cleanup is
\* called directly.
CleanupStep ==
    /\ ~crashed
    /\ shards' = [shards EXCEPT ![cleanupPos] = CleanupLoop(@, now)]
    /\ cleanupPos' = (cleanupPos + 1) % NumShards
    /\ nextCleanup' = IF cleanupPos = 0 /\ now >= nextCleanup
                      THEN nextCleanup + CleanupInterval
                      ELSE nextCleanup
    /\ ret' = None
    /\ UNCHANGED <<now, getPending, lastWrite>>
    /\ UNCHANGED <<walVars, pipeVars, histVars>>
    /\ UNCHANGED clusterVars

\* A second passes.  The cleanup task runs its pass within the second its
\* ticker fires, and a pass takes less than a second.
Tick ==
    /\ ~crashed
    /\ now < MaxTime
    /\ cleanupPos = 0
    /\ now < nextCleanup
    /\ now' = now + 1
    /\ ret' = None
    /\ UNCHANGED <<shards, nextCleanup, cleanupPos, getPending, lastWrite>>
    /\ UNCHANGED <<walVars, pipeVars, histVars>>
    /\ UNCHANGED clusterVars

\* ------------------------------------------- the store without durability

\* The state after LoadConfigAndCreateStore with wal_enabled = false; the
\* cleanup ticker's phase is arbitrary.
Init ==
    /\ shards = NewShards
    /\ now = 0
    /\ nextCleanup \in 1..CleanupInterval
    /\ cleanupPos = 0
    /\ getPending = None
    /\ ret = None
    /\ lastWrite = NoLastWrite
    /\ walEnabled = FALSE
    /\ isWalRecovery = FALSE
    /\ queue = << >>
    /\ queueClosed = FALSE
    /\ crashed = FALSE
    /\ enqueued = << >>
    /\ held = None
    /\ consumerDone = FALSE
    /\ buffer = << >>
    /\ file = << >>
    /\ tickPending = FALSE
    /\ phase = "open"
    /\ prod = NoProducer
    /\ applied = << >>
    /\ pendingAtClose = None
    /\ closedShards = NewShards
    /\ recovered = None
    /\ damage = None
    /\ ClusterIdle

Next ==
    \/ \E k \in Keys, v \in Values, t \in TTLs : Set(k, v, t)
    \/ \E k \in Keys : Delete(k)
    \/ \E k \in Keys : GetRead(k)
    \/ GetDelete
    \/ CleanupStep
    \/ Tick

Spec == Init /\ [][Next]_vars

\* ------------------------------------------------ properties of the store

\* The positions (from 1) of the heap entries that carry the key.
HeapNodes(sh, key) == {j \in 1..Len(sh.heap) : sh.heap[j].key = key}

\* The key's shard.
ShardOf(key) == shards[ShardIndex[key]]

\* The key's entry is in its shard's map.
InMap(key) == key \in DOMAIN ShardOf(key).store

\* The Get that has just returned.
GetReturned == ret # None /\ ret[1].op = "get"

\* C1: Set/Get round trip.  A Get of a key whose last Set had ttl = 0, with no
\* Delete of the key since, returns that Set's value and true, at any later
\* time and after any number of Cleanup passes.
C1_SetGetRoundTrip ==
    GetReturned /\ ret[1].seen # None /\ ret[1].seen[1].Expiration = 0
        => ret[1].ok /\ ret[1].value = ret[1].seen[1].Value

\* A Get returned the value of an immortal entry two seconds or more after
\* time 0, after Cleanup had popped the entry's heap node.
C1_Witness ==
    /\ GetReturned /\ ret[1].ok
    /\ ret[1].seen # None /\ ret[1].seen[1].Expiration = 0
    /\ now >= 2
    /\ HeapNodes(ShardOf(ret[1].key), ret[1].key) = {}

\* C2: TTL expiry as Get sees it.  A Get of a key whose last Set had ttl > 0
\* (expiration = time of the Set + ttl), with no Delete of the key since,
\* returns that Set's value and true before the expiration and "" and false
\* after it, whether or not Cleanup has run.
C2_GetExpiry ==
    GetReturned /\ ret[1].seen # None /\ ret[1].seen[1].Expiration > 0
        => /\ now < ret[1].seen[1].Expiration
                => ret[1].ok /\ ret[1].value = ret[1].seen[1].Value
           /\ now > ret[1].seen[1].Expiration
                => ~ret[1].ok /\ ret[1].value = EmptyString

\* A Get returned "" and false for a key whose expiration had passed.
C2_Witness ==
    /\ GetReturned /\ ~ret[1].ok
    /\ ret[1].seen # None /\ ret[1].seen[1].Expiration > 0
    /\ now > ret[1].seen[1].Expiration

\* C3: physical removal of expired keys.  An entry with a TTL is no longer in
\* its shard's map once a cleanup interval has gone by since its expiration
\* passed: the pass the cleanup task runs in that interval has removed it
\* (unless an expired read has).
C3_RemovedWithinInterval ==
    \A k \in Keys :
        InMap(k) /\ ShardOf(k).store[k].Expiration > 0
            => now <= ShardOf(k).store[k].Expiration + CleanupInterval

\* Delete applied twice to a shard gives what Delete applied once gives.
DeleteTwiceIsDeleteOnce ==
    \A k \in Keys :
        LET once == DeleteShard(ShardOf(k), k)
        IN  DeleteShard(once, k) = once

\* After Delete(k) has returned, k is not in the map: Get returns "" and false.
DeletedIsAbsent ==
    ret # None /\ ret[1].op = "delete"
        => /\ ~InMap(ret[1].key)
           /\ ~GetReturn(ret[1].key, InMap(ret[1].key), ShardOf(ret[1].key).store).ok

\* A Delete(k) that follows a Delete(k) leaves every shard as it is.
SecondDeleteChangesNothing ==
    (/\ ret # None /\ ret[1].op = "delete"
     /\ ret' # None /\ ret'[1].op = "delete"
     /\ ret'[1].key = ret[1].key) => shards' = shards

\* C4: Delete idempotence.  Delete(k) followed by Delete(k): the second leaves
\* the map and the heap of every shard unchanged, and k is absent for Get
\* after each of them, also when k was never set.
C4_DeleteIdempotent ==
    /\ [](DeleteTwiceIsDeleteOnce /\ DeletedIsAbsent)
    /\ [][SecondDeleteChangesNothing]_vars

\* Delete(k) has returned for a key that was set, and the other entry of the
\* shard is still in the map and in the heap.
C4_Witness ==
    /\ ret # None /\ ret[1].op = "delete"
    /\ ~InMap(ret[1].key)
    /\ ShardOf(ret[1].key).store # << >>
    /\ ShardOf(ret[1].key).heap # << >>

\* An entry is live at time t: it never expires, or its expiration has not
\* passed.
Live(vt, t) == vt.Expiration = 0 \/ t <= vt.Expiration

\* The entry of the last Set on a key is in the map, unchanged, for as long
\* as it is live and Delete is not called on the key.
LiveWriteIsKept ==
    \A k \in Keys :
        lastWrite[k] # None /\ Live(lastWrite[k][1], now)
            => InMap(k) /\ ShardOf(k).store[k] = lastWrite[k][1]

\* A step of Cleanup keeps every live entry of the map.
CleanupKeepsLive ==
    cleanupPos' # cleanupPos
        => \A k \in Keys :
               InMap(k) /\ Live(ShardOf(k).store[k], now)
                   => /\ k \in DOMAIN shards'[ShardIndex[k]].store
                      /\ shards'[ShardIndex[k]].store[k] = ShardOf(k).store[k]

\* C5: replace never causes premature eviction.  After Set(k, v1, t1) and
\* Set(k, v2, t2) the entry (v2, t2) stays in the map while it is live, and
\* Cleanup never removes a map entry whose expiration is 0 or has not passed.
C5_NoPrematureEviction ==
    /\ []LiveWriteIsKept
    /\ [][CleanupKeepsLive]_vars

\* Cleanup has removed the expired entry of one key (its last Set is in the
\* history, no Delete was called) from a shard that holds a live entry with a
\* TTL of another key.
C5_Witness ==
    \E k, j \in Keys :
        /\ k # j /\ ShardIndex[k] = ShardIndex[j]
        /\ lastWrite[j] # None /\ ~InMap(j)
        /\ lastWrite[k] # None /\ lastWrite[k][1].Expiration > now
        /\ InMap(k)

\* C6: shard invariant.  A key is in the map with expiration > 0 if and only
\* if the heap holds exactly one node for the key, carrying that expiration;
\* a key with expiration = 0 has no heap node.
C6_ShardInvariant ==
    \A k \in Keys :
        LET sh    == ShardOf(k)
            nodes == HeapNodes(sh, k)
        IN  /\ (InMap(k) /\ sh.store[k].Expiration > 0)
                <=> (/\ Cardinality(nodes) = 1
                     /\ InMap(k)
                     /\ \A j \in nodes :
                            sh.heap[j].valueWithTTL.Expiration = sh.store[k].Expiration
                     /\ \A j \in nodes : sh.heap[j].valueWithTTL.Expiration > 0)
            /\ (InMap(k) /\ sh.store[k].Expiration = 0) => nodes = {}

\* ---------------------------------------------------- the WAL's goroutines

\* The number of operations the producers issue in the model.
MaxRecords == 3

\* WAL.flush as it would be if it waited for a full buffer.
flushWhenFull(buf, f) ==
    IF Len(buf) < BufferSize THEN [buffer |-> buf, file |-> f]
    ELSE [buffer |-> << >>, file |-> f \o encodeAll(buf)]

\* WAL.flush: nothing for an empty buffer; else the buffered entries are
\* encoded in order, written to the file, and the buffer is cleared.
flush(buf, f) ==
    IF Len(buf) = 0 THEN [buffer |-> buf, file |-> f]
    ELSE [buffer |-> << >>, file |-> f \o encodeAll(buf)]

\* startQueueProcessor's step under wal.mu: checksum, append, and flush once
\* the buffer holds bufferSize entries.
processEntry(entry, buf, f) ==
    CHOOSE r \in {IF Len(b) >= BufferSize THEN flush(b, f) ELSE [buffer |-> b, file |-> f] :
                     b \in {Append(buf, WithChecksum(entry))}} : TRUE

\* Set and Delete as they would be if they unlocked the shard before s.wal.Log.
ShardUnlockedBeforeLogging == FALSE

\* Set and Delete release the shard's lock by a deferred Unlock, that is
\* after s.wal.Log has returned.
ShardLockedWhileLogging == TRUE

\* A producer holds the lock of shard i.
Locked(i) == \E p \in Producers : prod[p] # None /\ prod[p][1].shard = i /\ prod[p][1].locked

\* A producer's Set or Delete up to its call of s.wal.Log: lock the shard,
\* apply the operation to the map and the heap.
ProducerApply(p, key, sh, entry, vt) ==
    /\ ~crashed
    /\ prod[p] = None
    /\ Len(applied) < MaxRecords
    /\ ~Locked(ShardIndex[key])
    /\ shards' = [shards EXCEPT ![ShardIndex[key]] = sh]
    /\ prod' = [prod EXCEPT ![p] = Some([entry |-> entry, shard |-> ShardIndex[key],
                                        locked |-> ShardLockedWhileLogging])]
    /\ applied' = Append(applied, entry)
    /\ lastWrite' = [lastWrite EXCEPT ![key] = vt]
    /\ ret' = None
    /\ UNCHANGED <<now, nextCleanup, cleanupPos, getPending>>
    /\ UNCHANGED <<walVars, pipeVars, pendingAtClose, closedShards, recovered, damage>>
    /\ UNCHANGED clusterVars

\* Set(key, value, ttl) of producer p, up to s.wal.Log.
ProducerSet(p, key, value, ttl) ==
    ProducerApply(p, key, SetShard(shards[ShardIndex[key]], key, value, ttl, now),
                  SetEntry(key, value, ttl, now),
                  Some(ValueWithTTL(value, SetExpiration(ttl, now))))

\* Delete(key) of producer p, up to s.wal.Log.
ProducerDelete(p, key) ==
    ProducerApply(p, key, DeleteShard(shards[ShardIndex[key]], key), DeleteEntry(key, now), None)

\* The rest of producer p's Set or Delete: s.wal.Log(entry), then the
\* deferred Unlock.  A producer whose Log panics does not return.
ProducerLog(p) ==
    /\ ~crashed
    /\ prod[p] # None
    /\ LogUnlessRecovery(prod[p][1].entry)
    /\ prod' = IF crashed' THEN prod ELSE [prod EXCEPT ![p] = None]
    /\ ret' = None
    /\ UNCHANGED <<shards, now, nextCleanup, cleanupPos, getPending, lastWrite>>
    /\ UNCHANGED <<walEnabled, isWalRecovery, queueClosed>>
    /\ UNCHANGED <<pipeVars, applied, pendingAtClose, closedShards, recovered, damage>>
    /\ UNCHANGED clusterVars

\* startQueueProcessor: for entry := range wal.queue receives an entry.
Dequeue ==
    /\ ~crashed
    /\ walEnabled
    /\ ~consumerDone
    /\ held = None
    /\ queue # << >>
    /\ held' = Some(Head(queue))
    /\ queue' = Tail(queue)
    /\ ret' = None
    /\ UNCHANGED <<shards, now, nextCleanup, cleanupPos, getPending, lastWrite>>
    /\ UNCHANGED <<walEnabled, isWalRecovery, queueClosed, crashed, enqueued>>
    /\ UNCHANGED <<consumerDone, buffer, file, tickPending, phase, histVars>>
    /\ UNCHANGED clusterVars

\* startQueueProcessor: the loop's body, under wal.mu.
Process ==
    /\ ~crashed
    /\ held # None
    /\ \E r \in {processEntry(held[1], buffer, file)} :
           buffer' = r.buffer /\ file' = r.file
    /\ held' = None
    /\ ret' = None
    /\ UNCHANGED <<shards, now, nextCleanup, cleanupPos, getPending, lastWrite>>
    /\ UNCHANGED <<walVars, consumerDone, tickPending, phase, histVars>>
    /\ UNCHANGED clusterVars

\* startQueueProcessor: the range loop ends once the queue is closed and
\* drained; the deferred queueWG.Done runs.
ConsumerExit ==
    /\ ~crashed
    /\ walEnabled
    /\ ~consumerDone
    /\ held = None
    /\ queueClosed
    /\ queue = << >>
    /\ consumerDone' = TRUE
    /\ ret' = None
    /\ UNCHANGED <<shards, now, nextCleanup, cleanupPos, getPending, lastWrite>>
    /\ UNCHANGED <<walVars, held, buffer, file, tickPending, phase, histVars>>
    /\ UNCHANGED clusterVars

\* flushTicker fires: a tick is put in its channel (of capacity 1) unless one
\* is waiting there; a stopped ticker does not fire.
TickerFire ==
    /\ ~crashed
    /\ walEnabled
    /\ phase \in {"open", "cleaned"}
    /\ ~tickPending
    /\ tickPending' = TRUE
    /\ ret' = None
    /\ UNCHANGED <<shards, now, nextCleanup, cleanupPos, getPending, lastWrite>>
    /\ UNCHANGED <<walVars, held, consumerDone, buffer, file, phase, histVars>>
    /\ UNCHANGED clusterVars

\* startFlushRoutine: receive the tick, flush under wal.mu.  The routine has
\* no way out of its loop, so it also runs after Close.
FlushRun ==
    /\ ~crashed
    /\ tickPending
    /\ tickPending' = FALSE
    /\ LET r == flush(buffer, file)
       IN  buffer' = r.buffer /\ file' = r.file
    /\ ret' = None
    /\ UNCHANGED <<shards, now, nextCleanup, cleanupPos, getPending, lastWrite>>
    /\ UNCHANGED <<walVars, held, consumerDone, phase, histVars>>
    /\ UNCHANGED clusterVars

\* ------------------------------------------------------------------ Close

RECURSIVE CleanupFrom(_, _, _)
\* Cleanup's loop over the shards from shard i, at time t.
CleanupFrom(sh, i, t) ==
    IF i >= NumShards THEN sh
    ELSE CleanupFrom([sh EXCEPT ![i] = CleanupLoop(@, t)], i + 1, t)

\* ShardedInMemoryStore.Close, first statement: s.Cleanup().  It takes every
\* shard's lock in turn; the model runs it when no pass of the cleanup task
\* is under way and no producer holds a lock.
CloseCleanup ==
    /\ ~crashed
    /\ phase = "open"
    /\ cleanupPos = 0
    /\ \A i \in 0..(NumShards - 1) : ~Locked(i)
    /\ shards' = CleanupFrom(shards, 0, now)
    /\ phase' = "cleaned"
    /\ ret' = None
    /\ UNCHANGED <<now, nextCleanup, cleanupPos, getPending, lastWrite>>
    /\ UNCHANGED <<walVars, held, consumerDone, buffer, file, tickPending, histVars>>
    /\ UNCHANGED clusterVars

\* WAL.Close: wal.flushTicker.Stop().  A tick already in the channel stays.
CloseStopTicker ==
    /\ ~crashed
    /\ walEnabled
    /\ phase = "cleaned"
    /\ phase' = "stopped"
    /\ pendingAtClose' = Some([queue |-> Len(queue) + Len(held), buffer |-> Len(buffer)])
    /\ ret' = None
    /\ UNCHANGED <<shards, now, nextCleanup, cleanupPos, getPending, lastWrite>>
    /\ UNCHANGED <<walVars, held, consumerDone, buffer, file, tickPending>>
    /\ UNCHANGED <<prod, applied, closedShards, recovered, damage>>
    /\ UNCHANGED clusterVars

\* WAL.Close: close(wal.queue).
CloseQueue ==
    /\ ~crashed
    /\ phase = "stopped"
    /\ phase' = "closed"
    /\ queueClosed' = TRUE
    /\ ret' = None
    /\ UNCHANGED <<shards, now, nextCleanup, cleanupPos, getPending, lastWrite>>
    /\ UNCHANGED <<walEnabled, isWalRecovery, queue, crashed, enqueued>>
    /\ UNCHANGED <<held, consumerDone, buffer, file, tickPending, histVars>>
    /\ UNCHANGED clusterVars

\* WAL.Close as it would be without the wait for the consumer.
WaitReturnsAtOnce(done) == TRUE

\* WAL.Close: wal.queueWG.Wait() returns once the consumer has finished.
WaitReturns(done) == done

\* WAL.Close after the wait: lock wal.mu, the final flush, close the file;
\* Close returns.
CloseFinish ==
    /\ ~crashed
    /\ phase = "closed"
    /\ WaitReturns(consumerDone)
    /\ LET r == flush(buffer, file)
       IN  buffer' = r.buffer /\ file' = r.file
    /\ phase' = "done"
    /\ closedShards' = shards
    /\ ret' = None
    /\ UNCHANGED <<shards, now, nextCleanup, cleanupPos, getPending, lastWrite>>
    /\ UNCHANGED <<walVars, held, consumerDone, tickPending>>
    /\ UNCHANGED <<prod, applied, pendingAtClose, recovered, damage>>
    /\ UNCHANGED clusterVars

\* ----------------------------------------------------------------- reopen

\* A second passes between the return of Close and the next start.
DownTick ==
    /\ ~crashed
    /\ phase = "done"
    /\ recovered = None
    /\ now < MaxTime
    /\ now' = now + 1
    /\ ret' = None
    /\ UNCHANGED <<shards, nextCleanup, cleanupPos, getPending, lastWrite>>
    /\ UNCHANGED <<walVars, pipeVars, histVars>>
    /\ UNCHANGED clusterVars

\* LoadConfigAndCreateStore with wal_enabled = true, after Close: NewWAL
\* opens the file for appending and starts the WAL's goroutines, the store is
\* created empty, RecoverFromWAL replays the file.
Reopen ==
    /\ ~crashed
    /\ walEnabled
    /\ phase = "done"
    /\ recovered = None
    /\ LET r == RecoverFromWAL(file, now)
       IN  /\ shards' = r.shards
           /\ isWalRecovery' = r.isWalRecovery
           /\ recovered' = Some([err |-> r.err])
    /\ phase' = "open"
    /\ queue' = << >>
    /\ queueClosed' = FALSE
    /\ held' = None
    /\ consumerDone' = FALSE
    /\ buffer' = << >>
    /\ tickPending' = FALSE
    /\ cleanupPos' = 0
    /\ nextCleanup' = now + CleanupInterval
    /\ getPending' = None
    /\ ret' = None
    /\ UNCHANGED <<now, lastWrite, walEnabled, crashed, enqueued, file>>
    /\ UNCHANGED <<prod, applied, pendingAtClose, closedShards, damage>>
    /\ UNCHANGED clusterVars

\* ------------------------------------- the WAL under concurrent producers

\* The state after LoadConfigAndCreateStore with wal_enabled = true and no
\* WAL file.
InitWAL ==
    /\ shards = NewShards
    /\ now = 0
    /\ nextCleanup = CleanupInterval
    /\ cleanupPos = 0
    /\ getPending = None
    /\ ret = None
    /\ lastWrite = NoLastWrite
    /\ walEnabled = TRUE
    /\ isWalRecovery = FALSE
    /\ queue = << >>
    /\ queueClosed = FALSE
    /\ crashed = FALSE
    /\ enqueued = << >>
    /\ held = None
    /\ consumerDone = FALSE
    /\ buffer = << >>
    /\ file = << >>
    /\ tickPending = FALSE
    /\ phase = "open"
    /\ prod = NoProducer
    /\ applied = << >>
    /\ pendingAtClose = None
    /\ closedShards = NewShards
    /\ recovered = None
    /\ damage = None
    /\ ClusterIdle

NextWAL ==
    \/ \E p \in Producers, k \in LogKeys : ProducerSet(p, k, <<120>>, 0)
    \/ \E p \in Producers, k \in LogKeys : ProducerDelete(p, k)
    \/ \E p \in Producers : ProducerLog(p)
    \/ Dequeue
    \/ Process
    \/ ConsumerExit
    \/ TickerFire
    \/ FlushRun
    \/ CloseCleanup
    \/ CloseStopTicker
    \/ CloseQueue
    \/ CloseFinish

SpecWAL == InitWAL /\ [][NextWAL]_vars

\* -------------------------------------------------- properties of the WAL

RECURSIVE FileEntries(_, _)
\* The records decodeEntry reads from the bytes, from offset pos up to the
\* first one it cannot read.
FileEntries(bytes, pos) ==
    LET d == decodeEntry(bytes, pos)
    IN  IF d.err # "nil" THEN << >>
        ELSE <<d.entry>> \o FileEntries(bytes, d.pos)

\* The entries as Log received them: the checksum not yet filled in.
AsLogged(entries) == [j \in 1..Len(entries) |-> [entries[j] EXCEPT !.Checksum = Zero32]]

RECURSIVE OnKey(_, _)
\* The entries on the key, in order.
OnKey(entries, key) ==
    IF entries = << >> THEN << >>
    ELSE IF Head(entries).Key = key THEN <<Head(entries)>> \o OnKey(Tail(entries), key)
    ELSE OnKey(Tail(entries), key)

IsPrefix(s, t) == Len(s) <= Len(t) /\ SubSeq(t, 1, Len(s)) = s

\* The entries on their way to the file: buffered, held by the consumer, queued.
InPipeline == AsLogged(buffer) \o held \o queue

\* The file is nothing but the encoding of the records it decodes to.
FileIsRecords == encodeAll(FileEntries(file, 0)) = file

\* The file, then the pipeline, hold the enqueued entries: each once, in the
\* order of enqueueing.
FileFollowsQueue == AsLogged(FileEntries(file, 0)) \o InPipeline = enqueued

\* On every key, the enqueued entries are the applied operations, in the
\* order of application, but for the operations of the producers that have
\* not yet returned from Log.
QueueFollowsShard ==
    \A k \in LogKeys :
        /\ IsPrefix(OnKey(enqueued, k), OnKey(applied, k))
        /\ (\A p \in Producers : prod[p] = None) => OnKey(enqueued, k) = OnKey(applied, k)

\* C8: under every interleaving of the producers, the consumer and the
\* periodic flush, the file holds the records in the order in which they were
\* enqueued, none lost, duplicated or reordered, and on each key that order
\* is the order in which the operations were applied to the shard.
C8_WalOrdering == FileIsRecords /\ FileFollowsQueue /\ QueueFollowsShard

\* C8's case: a Set and a Delete of one key are in the file, in that order,
\* and a third operation is behind them in the pipeline.
C8_Witness ==
    /\ Len(FileEntries(file, 0)) >= 2
    /\ \E j \in 1..(Len(FileEntries(file, 0)) - 1) :
          /\ FileEntries(file, 0)[j].Key = FileEntries(file, 0)[j + 1].Key
          /\ FileEntries(file, 0)[j].Action = ActionSet
          /\ FileEntries(file, 0)[j + 1].Action = ActionDelete
    /\ InPipeline # << >>
    /\ phase = "open"

\* C9: when Close has returned, every entry Log accepted is in the file,
\* once, in the order of enqueueing, and nothing is left in the queue, with
\* the consumer, or in the buffer.
C9_CloseDurability ==
    phase = "done" =>
        /\ FileIsRecords
        /\ AsLogged(FileEntries(file, 0)) = enqueued
        /\ InPipeline = << >>

\* C9's case: Close was called with an entry in the queue and one in the
\* buffer, and has returned.
C9_Witness ==
    /\ phase = "done"
    /\ pendingAtClose # None
    /\ pendingAtClose[1].queue >= 1
    /\ pendingAtClose[1].buffer >= 1
    /\ Len(FileEntries(file, 0)) >= 2

\* ------------------------------------------- the store, closed and reopened

\* The number of operations of the run before Close.
MaxReplayed == 2

\* The operations of the run before Close.
RecoverKeys == {<<97>>}
RecoverTTLs == {0, 1}

\* The store is in use: Close has not been called.
InUse == phase = "open" /\ recovered = None

\* The state after LoadConfigAndCreateStore with wal_enabled = true and no
\* WAL file.  WAL_flushInterval is longer than the run: the flush ticker does
\* not fire.
InitRecover == InitWAL

NextRecover ==
    \/ \E k \in RecoverKeys, v \in Values, t \in RecoverTTLs :
          InUse /\ Len(enqueued) < MaxReplayed /\ Set(k, v, t)
    \/ \E k \in RecoverKeys : InUse /\ Len(enqueued) < MaxReplayed /\ Delete(k)
    \/ InUse /\ CleanupStep
    \/ InUse /\ Tick
    \/ recovered = None /\ Dequeue
    \/ recovered = None /\ Process
    \/ recovered = None /\ ConsumerExit
    \/ getPending = None /\ recovered = None /\ CloseCleanup
    \/ CloseStopTicker
    \/ CloseQueue
    \/ CloseFinish
    \/ DownTick
    \/ Reopen

SpecRecover == InitRecover /\ [][NextRecover]_vars

\* ------------------------------------------ replay of a file that was altered

\* The records of the run before Close, all of second 0: Set("a", "x", 0),
\* Set("a", "y", 1), Delete("a").
CodecEntries ==
    {SetEntry(<<97>>, <<120>>, 0, 0), SetEntry(<<97>>, <<121>>, 1, 0), DeleteEntry(<<97>>, 0)}

\* The runs before Close: 0 .. MaxReplayed operations.
CodecRuns == UNION {[1..n -> CodecEntries] : n \in 0..MaxReplayed}

\* The entries with the checksum the consumer gives them.
Checksummed(entries) == [j \in 1..Len(entries) |-> WithChecksum(entries[j])]

RECURSIVE RunShards(_, _)
\* The shards after the operations of the entries, made at second 0.
RunShards(sh, entries) ==
    IF entries = << >> THEN sh
    ELSE RunShards(RecoverApply(sh, Head(entries), 0), Tail(entries))

RECURSIVE RunLastWrite(_, _)
\* The history of last writes after the operations of the entries.
RunLastWrite(lw, entries) ==
    IF entries = << >> THEN lw
    ELSE LET e == Head(entries)
         IN  RunLastWrite([lw EXCEPT ![e.Key] =
                               IF e.Action = ActionSet
                               THEN Some(ValueWithTTL(e.Value, SetExpiration(e.TTL, 0)))
                               ELSE None],
                          Tail(entries))

RECURSIVE PayloadBytes(_, _, _)
\* The places of the key and value bytes of the records of the file, from
\* the j-th record at offset pos on: [pos (from 1), record].
PayloadBytes(bytes, pos, j) ==
    LET a == ReadString(bytes, pos)
        k == ReadString(bytes, a.pos)
        v == ReadString(bytes, k.pos)
        d == decodeEntry(bytes, pos)
    IN  IF d.err # "nil" THEN {}
        ELSE {[pos |-> i, record |-> j] : i \in ((a.pos + 5)..k.pos) \cup ((k.pos + 5)..v.pos)}
                 \cup PayloadBytes(bytes, d.pos, j + 1)

\* The values of a byte.
Bytes == 0..255

\* Between Close and the next start, the byte at a place of the file, inside
\* the key or the value of a record, is altered.
AlterPayloadByte(place, b) ==
    /\ phase = "done"
    /\ recovered = None
    /\ damage = None
    /\ b # file[place.pos]
    /\ file' = [file EXCEPT ![place.pos] = b]
    /\ damage' = Some([kind |-> "payload", pos |-> place.pos, record |-> place.record])
    /\ UNCHANGED <<storeVars, walVars>>
    /\ UNCHANGED <<held, consumerDone, buffer, tickPending, phase>>
    /\ UNCHANGED <<prod, applied, pendingAtClose, closedShards, recovered>>
    /\ UNCHANGED clusterVars

RECURSIVE LastRecord(_, _, _)
\* The offset at which the last record of the file begins and its number,
\* from the j-th record at offset pos on; the file is not empty.
LastRecord(bytes, pos, j) ==
    LET d == decodeEntry(bytes, pos)
    IN  IF d.err # "nil" \/ d.pos >= Len(bytes) THEN [pos |-> pos, record |-> j]
        ELSE LastRecord(bytes, d.pos, j + 1)

\* Between Close and the next start, the file loses its end: n bytes are
\* left, the last of them inside the trailing record.
TruncateTrailing(n) ==
    /\ phase = "done"
    /\ recovered = None
    /\ damage = None
    /\ file # << >>
    /\ n > LastRecord(file, 0, 1).pos
    /\ n < Len(file)
    /\ file' = SubSeq(file, 1, n)
    /\ damage' = Some([kind |-> "truncated", pos |-> n, record |-> LastRecord(file, 0, 1).record])
    /\ UNCHANGED <<storeVars, walVars>>
    /\ UNCHANGED <<held, consumerDone, buffer, tickPending, phase>>
    /\ UNCHANGED <<prod, applied, pendingAtClose, closedShards, recovered>>
    /\ UNCHANGED clusterVars

\* A store with wal_enabled = true that made a run of operations at second 0
\* and was closed, at once or at second MaxTime.
InitCodec ==
    \E run \in CodecRuns, t \in {0, MaxTime} :
        /\ shards = CleanupFrom(RunShards(NewShards, run), 0, t)
        /\ now = t
        /\ nextCleanup = CleanupInterval * ((t \div CleanupInterval) + 1)
        /\ cleanupPos = 0
        /\ getPending = None
        /\ ret = None
        /\ lastWrite = RunLastWrite(NoLastWrite, run)
        /\ walEnabled = TRUE
        /\ isWalRecovery = FALSE
        /\ queue = << >>
        /\ queueClosed = TRUE
        /\ crashed = FALSE
        /\ enqueued = run
        /\ held = None
        /\ consumerDone = TRUE
        /\ buffer = << >>
        /\ file = encodeAll(Checksummed(run))
        /\ tickPending = FALSE
        /\ phase = "done"
        /\ prod = NoProducer
        /\ applied = << >>
        /\ pendingAtClose = Some([queue |-> 0, buffer |-> 0])
        /\ closedShards = shards
        /\ recovered = None
        /\ damage = None
        /\ ClusterIdle

NextCodec ==
    \/ /\ damage = None
       /\ recovered = None
       /\ \E place \in PayloadBytes(file, 0, 1), b \in Bytes : AlterPayloadByte(place, b)
    \/ /\ damage = None
       /\ recovered = None
       /\ \E n \in 1..Len(file) : TruncateTrailing(n)
    \/ Reopen

SpecCodec == InitCodec /\ [][NextCodec]_vars

\* -------------------------------------------------- properties of recovery

\* What Get of the key finds in the shards at time t: the value of the
\* key's entry if it has one that is not expired, or None.
LiveValue(sh, key, t) ==
    LET m == sh[getShard(key)].store
    IN  IF key \in DOMAIN m /\ ~GetExpired(m[key], t) THEN Some(m[key].Value) ELSE None

\* C7: after Set and Delete operations and Close, the store reopened with
\* replay has, entries that expired before the reopen apart, the entries the
\* original store had when it was closed: replay succeeds, and every key has
\* an unexpired entry in the one if and only if it has one in the other, with
\* the same value.
C7_WalRoundTrip ==
    recovered # None =>
        /\ recovered[1].err = "nil"
        /\ \A k \in RecoverKeys : LiveValue(shards, k, now) = LiveValue(closedShards, k, now)

\* C10: if one byte of the key or of the value of a record in the file was
\* altered, replay fails with the checksum error: it does not succeed, and
\* it does not fail otherwise.
C10_ChecksumRejection ==
    (recovered # None /\ damage # None /\ damage[1].kind = "payload")
        => recovered[1].err = "invalid checksum"

\* C10's case: replay has met a record with an altered byte that follows an
\* intact record and whose TTL has expired, and has failed on it.
C10_Witness ==
    /\ recovered # None
    /\ damage # None
    /\ damage[1].kind = "payload"
    /\ damage[1].record = 2
    /\ RecoverSkips(FileEntries(file, 0)[2], now)
    /\ recovered[1].err = "invalid checksum"

\* Replay of the empty file succeeds and leaves the store empty.
EmptyFileReplays ==
    (recovered # None /\ file = << >>) =>
        (recovered[1].err = "nil" /\ shards = NewShards)

\* Replay of a file whose trailing record is cut short fails with a decode
\* error of the reader.
TruncatedFileFails ==
    (recovered # None /\ damage # None /\ damage[1].kind = "truncated") =>
        recovered[1].err \in {"EOF", "ErrUnexpectedEOF"}

\* C11: replay of an empty file succeeds and yields an empty store, and
\* replay of a file whose trailing record is truncated at any place inside
\* the record fails with a decode error.
C11_TruncatedLog == EmptyFileReplays /\ TruncatedFileFails

\* ---------------------------------------------------------- cluster manager
\* The keys of cluster requests: CRC32 of "g" is 0 modulo 2 and 1 modulo 3,
\* CRC32 of "b" is 1 modulo 2 and 2 modulo 3.
ClusterKeys == {<<103>>, <<98>>}

\* crc32.ChecksumIEEE of the keys, and of the empty key.
KeyHash == [k \in ClusterKeys \cup {EmptyString} |-> ChecksumIEEE(k)]

\* replica_count of the configuration: the replicas a key has beside its
\* primary node.
ReplicaCount == 1

\* A Node of the registry.
Node(address, active, index) == [Address |-> address, Active |-> active, Index |-> index]

\* The position (from 1) of the first node of the registry with the address,
\* or 0.
FindNode(nodes, address) ==
    IF \E i \in 1..Len(nodes) : nodes[i].Address = address
    THEN CHOOSE i \in 1..Len(nodes) :
             /\ nodes[i].Address = address
             /\ \A j \in 1..(i - 1) : nodes[j].Address # address
    ELSE 0

\* AddNode as it would be if it did not look for the address first.
AddNodeAppends(nodes, address) == Append(nodes, Node(address, TRUE, Len(nodes)))

\* AddNode: a node with the address is replaced, at the position its Index
\* names, by an active node; a new address is appended as an active node.
AddNode(nodes, address) ==
    LET i == FindNode(nodes, address)
    IN  IF i # 0
        THEN [nodes EXCEPT ![nodes[i].Index + 1] = Node(address, TRUE, nodes[i].Index)]
        ELSE Append(nodes, Node(address, TRUE, Len(nodes)))

\* RemoveNode as it would be without the renumbering of the nodes that
\* follow.
RemoveNodeKeepsIndices(nodes, address) ==
    LET i == FindNode(nodes, address)
    IN  IF i = 0
        THEN nodes
        ELSE [j \in 1..(Len(nodes) - 1) |-> IF j < i THEN nodes[j] ELSE nodes[j + 1]]

\* RemoveNode: the first node with the address is taken out and the nodes
\* after it get their new positions as Index.
RemoveNode(nodes, address) ==
    LET i == FindNode(nodes, address)
    IN  IF i = 0
        THEN nodes
        ELSE [j \in 1..(Len(nodes) - 1) |->
                 IF j < i THEN nodes[j] ELSE [nodes[j + 1] EXCEPT !.Index = j - 1]]

\* The active nodes of the registry, in registry order.
ActiveOf(nodes) ==
    LET isActive(n) == n.Active
    IN  SelectSeq(nodes, isActive)

\* GetActiveNodes: the addresses of the active nodes, in registry order.
GetActiveNodes(nodes) ==
    LET active == ActiveOf(nodes)
    IN  [i \in 1..Len(active) |-> active[i].Address]

\* A result of GetNodes: the list it returns, or the panic of the run time.
Selected(list) == [panic |-> FALSE, nodes |-> list]
Panics == [panic |-> TRUE, nodes |-> << >>]

\* GetNodes as it would be if it took the nodes at the positions from the
\* registry with its inactive nodes.
GetNodesFromRegistry(nodes, key, replicas) ==
    IF Len(nodes) = 0
    THEN Selected(<< >>)
    ELSE LET primaryIdx == Mod32(KeyHash[key], Len(nodes))
         IN  Selected([i \in 1..(replicas + 1) |->
                          nodes[((primaryIdx + (i - 1)) % Len(nodes)) + 1]])

\* GetNodes: nil for the empty registry; otherwise, for i = 0..replicas, the
\* active node at (primaryIdx + i) % len(active), where primaryIdx is the
\* key's CRC32 modulo the length of the registry.  With no active node the
\* first remainder divides by zero.
GetNodes(nodes, key, replicas) ==
    IF Len(nodes) = 0
    THEN Selected(<< >>)
    ELSE LET primaryIdx == Mod32(KeyHash[key], Len(nodes))
             active == ActiveOf(nodes)
         IN  IF Len(active) = 0
             THEN Panics
             ELSE Selected([i \in 1..(replicas + 1) |->
                               active[((primaryIdx + (i - 1)) % Len(active)) + 1]])

\* ------------------------------------------------------------ node service
\* What a call to a node comes to: the caller reads the node as inactive and
\* skips it, rpc.Dial or client.Call fails, or the node replies.
Outcomes == {"inactive", "error", "ok"}

\* The value of cluster requests.
ClusterValue == <<120>>

\* RPCSet of a node at time t: Store.Set(key, value, ttl), and a reply with
\* Success true.
RPCSet(store, key, value, ttl, t) ==
    [store |-> MapPut(store, key, ValueWithTTL(value, SetExpiration(ttl, t))),
     Success |-> TRUE]

\* RPCGet of a node: the key's value with Success true, or Success false.
\* (The entries read through it were stored with ttl 0 and never expire.)
RPCGet(store, key) ==
    IF key \in DOMAIN store
    THEN [Success |-> TRUE, Data |-> store[key].Value]
    ELSE [Success |-> FALSE, Data |-> EmptyString]

\* RPCDelete of a node: Store.Delete, and a reply with Success true.
RPCDelete(store, key) == [store |-> MapDelete(store, key), Success |-> TRUE]

\* One step of a call's record: the key, the node's address and the outcome.
Call(key, address, outcome) == [key |-> key, address |-> address, outcome |-> outcome]

\* What a NodeService call returns, with the stores of the nodes after it and
\* the record of its calls.
Returned(stores, err, reply, calls) ==
    [stores |-> stores, err |-> err, reply |-> reply, calls |-> calls]

NoReply == [Success |-> FALSE, Data |-> EmptyString]

\* SetData's loop over the nodes of one key, from the i-th node.
RECURSIVE SetDataNodes(_, _, _, _, _, _, _, _, _)
SetDataNodes(nodes, i, key, value, ttl, t, stores, out, calls) ==
    IF i > Len(nodes)
    THEN Returned(stores, "nil", TRUE, calls)
    ELSE LET a == nodes[i].Address
             made == Append(calls, Call(key, a, out[a]))
         IN  IF out[a] # "ok"
             THEN SetDataNodes(nodes, i + 1, key, value, ttl, t, stores, out, made)
             ELSE LET resp == RPCSet(stores[a], key, value, ttl, t)
                      after == [stores EXCEPT ![a] = resp.store]
                  IN  IF ~resp.Success
                      THEN Returned(after, "node failed to set key", FALSE, made)
                      ELSE SetDataNodes(nodes, i + 1, key, value, ttl, t, after, out, made)

\* SetData's loop over the keys of the map, in the order the iteration of
\* the map takes them, from the i-th key.
RECURSIVE SetDataKeys(_, _, _, _, _, _, _, _, _)
SetDataKeys(order, i, data, ttl, t, nodes, stores, out, calls) ==
    IF i > Len(order)
    THEN Returned(stores, "nil", TRUE, calls)
    ELSE LET key == order[i]
             got == GetNodes(nodes, key, ReplicaCount)
         IN  IF got.panic
             THEN Returned(stores, "panic", FALSE, calls)
             ELSE IF Len(got.nodes) = 0
             THEN Returned(stores, "no active nodes available", FALSE, calls)
             ELSE LET r == SetDataNodes(got.nodes, 1, key, data[key], ttl, t, stores, out, calls)
                  IN  IF r.err # "nil"
                      THEN r
                      ELSE SetDataKeys(order, i + 1, data, ttl, t, nodes, r.stores, out, r.calls)

\* GetData's loop as it would be if it gave up at the first node it cannot
\* reach.
RECURSIVE GetDataStopsAtError(_, _, _, _, _, _)
GetDataStopsAtError(nodes, i, key, stores, out, calls) ==
    IF i > Len(nodes)
    THEN Returned(stores, "no key was found", NoReply, calls)
    ELSE LET a == nodes[i].Address
             made == Append(calls, Call(key, a, out[a]))
         IN  IF out[a] # "ok"
             THEN Returned(stores, "no key was found", NoReply, made)
             ELSE LET resp == RPCGet(stores[a], key)
                  IN  IF resp.Success
                      THEN Returned(stores, "nil", resp, made)
                      ELSE GetDataStopsAtError(nodes, i + 1, key, stores, out, made)

\* GetData's loop over the nodes, from the i-th node.
RECURSIVE GetDataNodes(_, _, _, _, _, _)
GetDataNodes(nodes, i, key, stores, out, calls) ==
    IF i > Len(nodes)
    THEN Returned(stores, "no key was found", NoReply, calls)
    ELSE LET a == nodes[i].Address
             made == Append(calls, Call(key, a, out[a]))
         IN  IF out[a] # "ok"
             THEN GetDataNodes(nodes, i + 1, key, stores, out, made)
             ELSE LET resp == RPCGet(stores[a], key)
                  IN  IF resp.Success
                      THEN Returned(stores, "nil", resp, made)
                      ELSE GetDataNodes(nodes, i + 1, key, stores, out, made)

\* DeleteData's loop as it would be if it went on to the remaining nodes
\* after a successful RPCDelete.
RECURSIVE DeleteDataContactsAll(_, _, _, _, _, _)
DeleteDataContactsAll(nodes, i, key, stores, out, calls) ==
    IF i > Len(nodes)
    THEN IF \E c \in 1..Len(calls) : calls[c].outcome = "ok"
         THEN Returned(stores, "nil", TRUE, calls)
         ELSE Returned(stores, "all nodes failed to delete key", FALSE, calls)
    ELSE LET a == nodes[i].Address
             made == Append(calls, Call(key, a, out[a]))
         IN  IF out[a] # "ok"
             THEN DeleteDataContactsAll(nodes, i + 1, key, stores, out, made)
             ELSE LET resp == RPCDelete(stores[a], key)
                      after == [stores EXCEPT ![a] = resp.store]
                  IN  DeleteDataContactsAll(nodes, i + 1, key, after, out, made)

\* DeleteData's loop over the nodes, from the i-th node.
RECURSIVE DeleteDataNodes(_, _, _, _, _, _)
DeleteDataNodes(nodes, i, key, stores, out, calls) ==
    IF i > Len(nodes)
    THEN Returned(stores, "all nodes failed to delete key", FALSE, calls)
    ELSE LET a == nodes[i].Address
             made == Append(calls, Call(key, a, out[a]))
         IN  IF out[a] # "ok"
             THEN DeleteDataNodes(nodes, i + 1, key, stores, out, made)
             ELSE LET resp == RPCDelete(stores[a], key)
                      after == [stores EXCEPT ![a] = resp.store]
                  IN  IF resp.Success
                      THEN Returned(after, "nil", TRUE, made)
                      ELSE DeleteDataNodes(nodes, i + 1, key, after, out, made)

\* The call of one key: the replica set of the key, then the loop over it.
OnReplicas(got, stores, looped) ==
    IF got.panic
    THEN Returned(stores, "panic", FALSE, << >>)
    ELSE IF Len(got.nodes) = 0
    THEN Returned(stores, "no active nodes available", FALSE, << >>)
    ELSE looped

\* The history of a call: the operation, its input and what it returned.
Done(op, data, key, r) ==
    Some([op |-> op, data |-> data, key |-> key,
          err |-> r.err, reply |-> r.reply, calls |-> r.calls])

\* NodeService.SetData(data, ttl, reply).
SetData(data, ttl, order, out) ==
    \E r \in {SetDataKeys(order, 1, data, ttl, now, cmNodes, nodeData, out, << >>)} :
        /\ nodeData' = r.stores
        /\ cres' = Done("set", data, EmptyString, r)
        /\ UNCHANGED <<cmNodes, nodesFile, alive, memberVars, httpVars, flushDone>>
        /\ UNCHANGED <<storeVars, walVars, pipeVars, histVars>>

\* NodeService.GetData(key, reply).
GetData(key, out) ==
    \E got \in {GetNodes(cmNodes, key, ReplicaCount)} :
    \E r \in {OnReplicas(got, nodeData, GetDataNodes(got.nodes, 1, key, nodeData, out, << >>))} :
        /\ nodeData' = r.stores
        /\ cres' = Done("get", << >>, key, r)
        /\ UNCHANGED <<cmNodes, nodesFile, alive, memberVars, httpVars, flushDone>>
        /\ UNCHANGED <<storeVars, walVars, pipeVars, histVars>>

\* NodeService.DeleteData(key, reply).
DeleteData(key, out) ==
    \E got \in {GetNodes(cmNodes, key, ReplicaCount)} :
    \E r \in {OnReplicas(got, nodeData, DeleteDataNodes(got.nodes, 1, key, nodeData, out, << >>))} :
        /\ nodeData' = r.stores
        /\ cres' = Done("delete", << >>, key, r)
        /\ UNCHANGED <<cmNodes, nodesFile, alive, memberVars, httpVars, flushDone>>
        /\ UNCHANGED <<storeVars, walVars, pipeVars, histVars>>

\* The registries of the inputs: the nodes of the first addresses in the
\* order they were added, each active or not, with Index the position.  (A
\* registry with other addresses in these places behaves alike.)
AddressOrder == <<"A", "B", "C">>
Registries ==
    UNION {{[i \in 1..n |-> Node(AddressOrder[i], ac[i], i - 1)] : ac \in [1..n -> BOOLEAN]} :
              n \in 0..Len(AddressOrder)}

\* The maps of a SetData request, and the orders the iteration of a map can
\* take its keys in.
DataMaps == UNION {[ks -> {ClusterValue}] : ks \in SUBSET ClusterKeys}
OrdersOf(ks) ==
    {o \in UNION {[1..n -> ks] : n \in 0..Cardinality(ClusterKeys)} :
        /\ Len(o) = Cardinality(ks)
        /\ \A i, j \in 1..Len(o) : i # j => o[i] # o[j]}

\* The addresses of the replica sets of the keys in the registry.
ReplicaAddresses(nodes, ks) ==
    UNION {{GetNodes(nodes, k, ReplicaCount).nodes[i].Address :
               i \in DOMAIN GetNodes(nodes, k, ReplicaCount).nodes} : k \in ks}

\* The outcomes the calls of a request for the keys can have.
OutcomesOf(nodes, ks) ==
    LET called == ReplicaAddresses(nodes, ks)
    IN  {[a \in Addresses |-> IF a \in called THEN o[a] ELSE "ok"] : o \in [called -> Outcomes]}

InitCluster ==
    /\ shards = NewShards
    /\ now = 0
    /\ nextCleanup = CleanupInterval
    /\ cleanupPos = 0
    /\ getPending = None
    /\ ret = None
    /\ lastWrite = NoLastWrite
    /\ walEnabled = FALSE
    /\ isWalRecovery = FALSE
    /\ queue = << >>
    /\ queueClosed = FALSE
    /\ crashed = FALSE
    /\ enqueued = << >>
    /\ held = None
    /\ consumerDone = FALSE
    /\ buffer = << >>
    /\ file = << >>
    /\ tickPending = FALSE
    /\ phase = "open"
    /\ prod = NoProducer
    /\ applied = << >>
    /\ pendingAtClose = None
    /\ closedShards = NewShards
    /\ recovered = None
    /\ damage = None
    /\ cmNodes \in Registries
    /\ nodesFile = << >>
    /\ alive = {}
    /\ nodeData = [a \in Addresses |-> << >>]
    /\ cres = None
    /\ modTime = 0
    /\ lastModTime = -1
    /\ nextSync = ConfigCheckInterval
    /\ nextHealth = HeartbeatInterval
    /\ plan = << >>
    /\ answersSince = Unlisted
    /\ listedSince = Unlisted
    /\ goneSince = Unlisted
    /\ marked = {}
    /\ LockIdle
    /\ flushDone = FALSE
    /\ HttpIdle

NextCluster ==
    \/ \E data \in DataMaps : \E order \in OrdersOf(DOMAIN data) :
           \E out \in OutcomesOf(cmNodes, DOMAIN data) : SetData(data, 0, order, out)
    \/ \E key \in ClusterKeys : \E out \in OutcomesOf(cmNodes, {key}) : GetData(key, out)
    \/ \E key \in ClusterKeys : \E out \in OutcomesOf(cmNodes, {key}) : DeleteData(key, out)

SpecCluster == InitCluster /\ [][NextCluster]_vars

\* ------------------------------------------- properties of the node service

\* The step is the return of a NodeService call of the operation.
Returns(op) == cres' # cres /\ cres'[1].op = op

\* The call to the node at the address for the key was answered.
Acknowledged(calls, key, address) ==
    \E c \in DOMAIN calls : calls[c] = Call(key, address, "ok")

\* C12: SetData sets reply to true and returns no error only if every node
\* of the replica set of every key of the map was reached and acknowledged
\* the RPCSet; a replica call that fails makes SetData return an error.
C12_SetDataWriteAll ==
    [][Returns("set") =>
          LET r == cres'[1]
          IN  /\ (r.err = "nil" /\ r.reply = TRUE) =>
                     \A k \in DOMAIN r.data :
                         LET got == GetNodes(cmNodes, k, ReplicaCount)
                         IN  /\ ~got.panic
                             /\ \A i \in DOMAIN got.nodes :
                                    Acknowledged(r.calls, k, got.nodes[i].Address)
              /\ (\E c \in DOMAIN r.calls : r.calls[c].outcome # "ok") => r.err # "nil"]_vars

\* The calls were made to the nodes of the list in the order of the list,
\* none left out.
InOrder(calls, nodes) ==
    /\ Len(calls) <= Len(nodes)
    /\ \A c \in DOMAIN calls : calls[c].address = nodes[c].Address

\* The c-th call of a GetData got a successful reply: the node answered and
\* its store had the key.
GetSucceeded(calls, c, stores) ==
    /\ calls[c].outcome = "ok"
    /\ calls[c].key \in DOMAIN stores[calls[c].address]

\* C13: GetData tries the nodes of the replica set in order; it moves on to
\* the next node when a node cannot be reached or has no value for the key,
\* and returns the first successful reply; when no node of the replica set
\* replies successfully it fails with "no key was found".
C13_GetDataFailover ==
    [][Returns("get") =>
          LET r == cres'[1]
              got == GetNodes(cmNodes, r.key, ReplicaCount)
              n == Len(r.calls)
          IN  (~got.panic /\ Len(got.nodes) > 0) =>
                  /\ InOrder(r.calls, got.nodes)
                  /\ n > 0
                  /\ \A c \in 1..(n - 1) : ~GetSucceeded(r.calls, c, nodeData)
                  /\ IF GetSucceeded(r.calls, n, nodeData)
                     THEN /\ r.err = "nil"
                          /\ r.reply.Success
                          /\ r.reply.Data = nodeData[r.calls[n].address][r.key].Value
                     ELSE /\ n = Len(got.nodes)
                          /\ r.err = "no key was found"
                  /\ nodeData' = nodeData]_vars

\* C13's case: a GetData found the primary unreachable and returned the value
\* of the secondary, another node.
C13_Witness ==
    /\ cres # None
    /\ cres[1].op = "get"
    /\ Len(cres[1].calls) = 2
    /\ cres[1].calls[1].outcome = "error"
    /\ cres[1].calls[2].outcome = "ok"
    /\ cres[1].calls[1].address # cres[1].calls[2].address
    /\ cres[1].err = "nil"
    /\ cres[1].reply = [Success |-> TRUE, Data |-> ClusterValue]

\* C14: DeleteData tries the nodes of the replica set in order and returns
\* success at the first node that answers the RPCDelete, which removes the
\* key there; the nodes after it are not contacted and keep what they have.
\* When no node answers, it fails with "all nodes failed to delete key".
C14_DeleteDataFirstSuccess ==
    [][Returns("delete") =>
          LET r == cres'[1]
              got == GetNodes(cmNodes, r.key, ReplicaCount)
              n == Len(r.calls)
          IN  (~got.panic /\ Len(got.nodes) > 0) =>
                  /\ InOrder(r.calls, got.nodes)
                  /\ n > 0
                  /\ \A c \in 1..(n - 1) : r.calls[c].outcome # "ok"
                  /\ IF r.calls[n].outcome = "ok"
                     THEN /\ r.err = "nil"
                          /\ r.reply = TRUE
                          /\ nodeData' = [nodeData EXCEPT ![r.calls[n].address] =
                                             MapDelete(nodeData[r.calls[n].address], r.key)]
                     ELSE /\ n = Len(got.nodes)
                          /\ r.err = "all nodes failed to delete key"
                          /\ nodeData' = nodeData]_vars

\* C14's case: a DeleteData has returned success after its first call, and
\* another node still holds the key.
C14_Witness ==
    /\ cres # None
    /\ cres[1].op = "delete"
    /\ cres[1].err = "nil"
    /\ Len(cres[1].calls) = 1
    /\ cres[1].calls[1].outcome = "ok"
    /\ cres[1].key \notin DOMAIN nodeData[cres[1].calls[1].address]
    /\ \E a \in Addresses : cres[1].key \in DOMAIN nodeData[a]

\* ------------------------------------------------- properties of GetNodes

\* The numbers of replicas GetNodes is asked for.
Replicas == 0..(ReplicaCount + 1)

\* CRC32-IEEE of the keys "g" and "b", as numbers.
Crc32Of(key) == IF key = <<103>> THEN 30677878 ELSE 1908338681

\* The addresses of a list of nodes.
AddressesOf(list) == [i \in DOMAIN list |-> list[i].Address]

\* C15: when at least one node is active, GetNodes(key, replicas) returns,
\* for i = 0..replicas in this order, the active node at position
\* (p + i) mod |active| of the active nodes in registry order, where p is
\* CRC32-IEEE(key) mod |registry|; the registry [A, B, C] with B inactive,
\* p = 1 and replicas = 1 gives [C, A].
C15_GetNodesSelection ==
    /\ \A k \in ClusterKeys, r \in Replicas :
           LET active == GetActiveNodes(cmNodes)
               got == GetNodes(cmNodes, k, r)
               p == Crc32Of(k) % Len(cmNodes)
           IN  Len(active) >= 1 =>
                   /\ ~got.panic
                   /\ Len(got.nodes) = r + 1
                   /\ \A i \in 0..r :
                          /\ got.nodes[i + 1].Address = active[((p + i) % Len(active)) + 1]
                          /\ got.nodes[i + 1].Active
    /\ AddressesOf(cmNodes) = <<"A", "B", "C">> /\ GetActiveNodes(cmNodes) = <<"A", "C">>
           => AddressesOf(GetNodes(cmNodes, <<103>>, 1).nodes) = <<"C", "A">>

\* C15's case: in the registry [A, B, C] with B inactive, a GetData of the
\* key "g" (p = 1) has called C and then A.
C15_Witness ==
    /\ AddressesOf(cmNodes) = <<"A", "B", "C">>
    /\ GetActiveNodes(cmNodes) = <<"A", "C">>
    /\ cres # None
    /\ cres[1].op = "get"
    /\ cres[1].key = <<103>>
    /\ [c \in DOMAIN cres[1].calls |-> cres[1].calls[c].address] = <<"C", "A">>

\* C16: whenever no node is active, with the registry empty or with every
\* node of it marked inactive, GetNodes returns the empty list without
\* failing, and a SetData with a key, a GetData and a DeleteData then fail
\* with the error "no active nodes available".
C16_NoActiveNode ==
    Len(GetActiveNodes(cmNodes)) = 0 =>
        /\ \A k \in ClusterKeys, r \in Replicas : GetNodes(cmNodes, k, r) = Selected(<< >>)
        /\ (cres # None /\ (cres[1].op = "set" => DOMAIN cres[1].data # {}))
               => cres[1].err = "no active nodes available"

\* Every registry of distinct addresses, each node active or not.
AnyRegistry ==
    UNION {{[i \in 1..n |-> Node(ad[i], ac[i], i - 1)] :
               ad \in {f \in [1..n -> Addresses] : \A i, j \in 1..n : i # j => f[i] # f[j]},
               ac \in [1..n -> BOOLEAN]} : n \in 0..Cardinality(Addresses)}

\* C17: GetNodes(k, r) depends on the registry only through its active
\* nodes and their order: in any two registries with the same active nodes
\* in the same order it gives the same list (and so the same list on every
\* call while the active nodes stay as they are).
C17_HashStability ==
    \A other \in AnyRegistry :
        (GetActiveNodes(other) = GetActiveNodes(cmNodes) /\ Len(GetActiveNodes(cmNodes)) >= 1) =>
            \A k \in ClusterKeys, r \in Replicas :
                AddressesOf(GetNodes(other, k, r).nodes) = AddressesOf(GetNodes(cmNodes, k, r).nodes)

\* ------------------------------------------------------ cluster membership
\* The addresses of the node file.
MemberAddresses == {"A", "B"}

\* The address is in the list of the node file.
Listed(listed, address) == \E i \in 1..Len(listed) : listed[i] = address

\* PingNode: the node at the address answers.
PingNode(address) == address \in alive

\* syncWithConfig's test of the modification time as it would be if it let
\* only a file modified since the last check through.
SyncSkipsUnmodified(fileTime, last) == fileTime <= last

\* syncWithConfig returns early when the file's modification time is before
\* LastModTime.
SyncSkips(fileTime, last) == fileTime < last

\* toAdd: the addresses of the file without an active node of the registry.
ToAdd(nodes, listed) ==
    LET missing(addr) == ~\E i \in 1..Len(nodes) : nodes[i].Address = addr /\ nodes[i].Active
    IN  SelectSeq(listed, missing)

\* toRemove as it would be if no node were ever stale.
ToRemoveNone(nodes, listed) == << >>

\* toRemove: the addresses of the nodes of the registry that the file does
\* not list.
ToRemove(nodes, listed) ==
    LET stale(n) == ~Listed(listed, n.Address)
    IN  AddressesOf(SelectSeq(nodes, stale))

\* A step of the plan of syncWithConfig.
Step(do, address) == [do |-> do, address |-> address]

\* The address whose node the histories of Ping and of the health check
\* follow (the addresses behave alike).
Watched == {"A"}

\* The histories of the addresses after a change of the file or of the nodes
\* that answer.
Since(was, holding) ==
    [a \in Addresses |->
        IF a \in holding THEN (IF was[a] # None THEN was[a] ELSE Some(now)) ELSE None]

Histories(listed, answering) ==
    LET here == {a \in Addresses : Listed(listed, a)}
    IN  /\ answersSince' = Since(answersSince, answering \cap Watched)
        /\ listedSince' = Since(listedSince, here)
        /\ goneSince' = Since(goneSince, Addresses \ here)

\* What the cluster manager leaves alone.
LocalStore == <<shards, nextCleanup, cleanupPos, getPending, ret, lastWrite>>

\* The operator adds the address to cluster/nodes.json.
AddToFile(a) ==
    /\ ~Listed(nodesFile, a)
    /\ nodesFile' = Append(nodesFile, a)
    /\ modTime' = now
    /\ Histories(nodesFile', alive)
    /\ UNCHANGED <<cmNodes, alive, nodeData, cres, lastModTime, nextSync, nextHealth, plan, marked>>
    /\ UNCHANGED <<now, LocalStore, walVars, pipeVars, histVars, httpVars, flushDone, lockVars>>

\* The operator takes the address out of cluster/nodes.json.
RemoveFromFile(a) ==
    /\ Listed(nodesFile, a)
    /\ nodesFile' = SelectSeq(nodesFile, LAMBDA x : x # a)
    /\ modTime' = now
    /\ Histories(nodesFile', alive)
    /\ UNCHANGED <<cmNodes, alive, nodeData, cres, lastModTime, nextSync, nextHealth, plan, marked>>
    /\ UNCHANGED <<now, LocalStore, walVars, pipeVars, histVars, httpVars, flushDone, lockVars>>

\* handleAddNode: updateNodesJSON appends the address to the file unless it
\* is listed, then AddNode, without a Ping.
HandleAddNode(a) ==
    /\ IF Listed(nodesFile, a)
       THEN UNCHANGED <<nodesFile, modTime>>
       ELSE nodesFile' = Append(nodesFile, a) /\ modTime' = now
    /\ cmNodes' = AddNode(cmNodes, a)
    /\ marked' = marked \ {a}
    /\ Histories(nodesFile', alive)
    /\ UNCHANGED <<alive, nodeData, cres, lastModTime, nextSync, nextHealth, plan>>
    /\ UNCHANGED <<now, LocalStore, walVars, pipeVars, histVars, httpVars, flushDone, lockVars>>

\* The node at the address starts to answer.
NodeUp(a) ==
    /\ a \notin alive
    /\ alive' = alive \cup {a}
    /\ Histories(nodesFile, alive')
    /\ UNCHANGED <<cmNodes, nodesFile, nodeData, cres, modTime, lastModTime, nextSync,
                   nextHealth, plan, marked>>
    /\ UNCHANGED <<now, LocalStore, walVars, pipeVars, histVars, httpVars, flushDone, lockVars>>

\* The node at the address stops answering.
NodeDown(a) ==
    /\ a \in alive
    /\ alive' = alive \ {a}
    /\ Histories(nodesFile, alive')
    /\ UNCHANGED <<cmNodes, nodesFile, nodeData, cres, modTime, lastModTime, nextSync,
                   nextHealth, plan, marked>>
    /\ UNCHANGED <<now, LocalStore, walVars, pipeVars, histVars, httpVars, flushDone, lockVars>>

\* The health check as it would be if it set every node's Active to the
\* result of its Ping.
HealthCheckSetsActive ==
    /\ now = nextHealth
    /\ nextHealth' = now + HeartbeatInterval
    /\ cmNodes' = [i \in 1..Len(cmNodes) |->
                      [cmNodes[i] EXCEPT !.Active = PingNode(cmNodes[i].Address)]]
    /\ marked' = marked \cup {a \in Watched : \E i \in 1..Len(cmNodes) :
                                   cmNodes[i].Address = a /\ ~PingNode(a)}
    /\ UNCHANGED <<nodesFile, alive, nodeData, cres, modTime, lastModTime, nextSync, plan,
                   answersSince, listedSince, goneSince>>
    /\ UNCHANGED <<now, LocalStore, walVars, pipeVars, histVars, httpVars, flushDone, lockVars>>

\* StartHealthCheck, one tick: every node whose Ping fails is marked
\* inactive.
HealthCheck ==
    /\ now = nextHealth
    /\ nextHealth' = now + HeartbeatInterval
    /\ cmNodes' = [i \in 1..Len(cmNodes) |->
                      IF PingNode(cmNodes[i].Address)
                      THEN cmNodes[i]
                      ELSE [cmNodes[i] EXCEPT !.Active = FALSE]]
    /\ marked' = marked \cup {a \in Watched : \E i \in 1..Len(cmNodes) :
                                   cmNodes[i].Address = a /\ ~PingNode(a)}
    /\ UNCHANGED <<nodesFile, alive, nodeData, cres, modTime, lastModTime, nextSync, plan,
                   answersSince, listedSince, goneSince>>
    /\ UNCHANGED <<now, LocalStore, walVars, pipeVars, histVars, httpVars, flushDone, lockVars>>

\* syncWithConfig, under the lock: the test of the modification time, and
\* toAdd and toRemove.
SyncPlan ==
    /\ now = nextSync
    /\ plan = << >>
    /\ nextSync' = now + ConfigCheckInterval
    /\ IF SyncSkips(modTime, lastModTime)
       THEN UNCHANGED <<lastModTime, plan>>
       ELSE /\ lastModTime' = modTime
            /\ plan' = [i \in 1..Len(ToAdd(cmNodes, nodesFile)) |->
                           Step("add", ToAdd(cmNodes, nodesFile)[i])]
                       \o [i \in 1..Len(ToRemove(cmNodes, nodesFile)) |->
                              Step("remove", ToRemove(cmNodes, nodesFile)[i])]
    /\ UNCHANGED <<cmNodes, nodesFile, alive, nodeData, cres, modTime, nextHealth,
                   answersSince, listedSince, goneSince, marked>>
    /\ UNCHANGED <<now, LocalStore, walVars, pipeVars, histVars, httpVars, flushDone, lockVars>>

\* syncWithConfig, after the lock: the next address of toAdd is added if its
\* Ping succeeds, or the next address of toRemove is removed.
SyncApply ==
    /\ plan # << >>
    /\ plan' = Tail(plan)
    /\ IF Head(plan).do = "add"
       THEN /\ cmNodes' = IF PingNode(Head(plan).address)
                          THEN AddNode(cmNodes, Head(plan).address)
                          ELSE cmNodes
            /\ UNCHANGED marked
       ELSE /\ cmNodes' = RemoveNode(cmNodes, Head(plan).address)
            /\ marked' = marked \ {Head(plan).address}
    /\ UNCHANGED <<nodesFile, alive, nodeData, cres, modTime, lastModTime, nextSync,
                   nextHealth, answersSince, listedSince, goneSince>>
    /\ UNCHANGED <<now, LocalStore, walVars, pipeVars, histVars, httpVars, flushDone, lockVars>>

\* A second passes.  The health check and the config monitor run within the
\* second their tickers fire, and take less than a second.
MemberTick ==
    /\ now < MaxTime
    /\ now < nextSync
    /\ now < nextHealth
    /\ plan = << >>
    /\ now' = now + 1
    /\ UNCHANGED <<LocalStore, walVars, pipeVars, histVars, clusterVars>>

\* The lists cluster/nodes.json can hold.
NodeFiles ==
    {l \in UNION {[1..n -> MemberAddresses] : n \in 0..Cardinality(MemberAddresses)} :
        \A i, j \in 1..Len(l) : i # j => l[i] # l[j]}

\* initializeCluster's loop: the addresses of the file whose Ping succeeds
\* are added in the order of the file.
RECURSIVE AddPinged(_, _, _, _)
AddPinged(nodes, listed, i, answering) ==
    IF i > Len(listed)
    THEN nodes
    ELSE AddPinged(IF listed[i] \in answering THEN AddNode(nodes, listed[i]) ELSE nodes,
                   listed, i + 1, answering)

\* The state after initializeCluster.
InitMembership ==
    /\ shards = NewShards
    /\ now = 0
    /\ nextCleanup = CleanupInterval
    /\ cleanupPos = 0
    /\ getPending = None
    /\ ret = None
    /\ lastWrite = NoLastWrite
    /\ walEnabled = FALSE
    /\ isWalRecovery = FALSE
    /\ queue = << >>
    /\ queueClosed = FALSE
    /\ crashed = FALSE
    /\ enqueued = << >>
    /\ held = None
    /\ consumerDone = FALSE
    /\ buffer = << >>
    /\ file = << >>
    /\ tickPending = FALSE
    /\ phase = "open"
    /\ prod = NoProducer
    /\ applied = << >>
    /\ pendingAtClose = None
    /\ closedShards = NewShards
    /\ recovered = None
    /\ damage = None
    /\ nodesFile \in NodeFiles
    /\ alive \in SUBSET MemberAddresses
    /\ cmNodes = AddPinged(<< >>, nodesFile, 1, alive)
    /\ nodeData = [a \in Addresses |-> << >>]
    /\ cres = None
    /\ modTime = 0
    /\ lastModTime = -1
    /\ nextSync = ConfigCheckInterval
    /\ nextHealth = HeartbeatInterval
    /\ plan = << >>
    /\ answersSince = [a \in Addresses |-> IF a \in alive \cap Watched THEN Some(0) ELSE None]
    /\ listedSince = [a \in Addresses |-> IF Listed(nodesFile, a) THEN Some(0) ELSE None]
    /\ goneSince = [a \in Addresses |-> IF Listed(nodesFile, a) THEN None ELSE Some(0)]
    /\ marked = {}
    /\ LockIdle
    /\ flushDone = FALSE
    /\ HttpIdle

NextMembership ==
    \/ \E a \in MemberAddresses : AddToFile(a)
    \/ \E a \in MemberAddresses : RemoveFromFile(a)
    \/ \E a \in MemberAddresses : HandleAddNode(a)
    \/ \E a \in MemberAddresses : NodeUp(a)
    \/ \E a \in MemberAddresses : NodeDown(a)
    \/ HealthCheck
    \/ SyncPlan
    \/ SyncApply
    \/ MemberTick

SpecMembership == InitMembership /\ [][NextMembership]_vars

\* --------------------------------------------- properties of the membership

\* The tickers that were due in this second have done their work.
Settled == plan = << >> /\ now < nextSync /\ now < nextHealth

\* The address has held the condition for a configCheck interval or longer.
ForAnInterval(since, a) == since[a] # None /\ now >= since[a][1] + ConfigCheckInterval

\* The address has been in the node file, and its node has answered Ping,
\* for a configCheck interval or longer.
GoodForAnInterval(a) == ForAnInterval(listedSince, a) /\ ForAnInterval(answersSince, a)

\* The address has a node in the registry.
Registered(a) == \E i \in 1..Len(cmNodes) : cmNodes[i].Address = a

\* The address is in GetActiveNodes.
IsActive(a) == Listed(GetActiveNodes(cmNodes), a)

\* C18: an address that has been in the node file and has answered Ping for
\* one configCheck interval is in GetActiveNodes; an address that has been
\* out of the node file for one configCheck interval is neither in the
\* registry nor in GetActiveNodes.
C18_ConfigReconciliation ==
    Settled =>
        /\ \A a \in Watched : GoodForAnInterval(a) => IsActive(a)
        /\ \A a \in MemberAddresses :
               ForAnInterval(goneSince, a) => (~Registered(a) /\ ~IsActive(a))

\* C18's case: an address that was added to the node file after the start
\* has become active, and an address that was taken out of it after the
\* start has left the registry, each one configCheck interval later.
C18_Witness ==
    /\ Settled
    /\ \E a \in Watched :
           /\ listedSince[a] # None
           /\ listedSince[a][1] > 0
           /\ GoodForAnInterval(a)
           /\ now = listedSince[a][1] + ConfigCheckInterval
           /\ IsActive(a)
    /\ \E b \in MemberAddresses :
           /\ goneSince[b] # None
           /\ goneSince[b][1] > 0
           /\ now = goneSince[b][1] + ConfigCheckInterval
           /\ b \in alive
           /\ ~Registered(b)

\* C19: a node that is listed in the node file and has answered Ping for one
\* configCheck interval is active, also when the node file was last modified
\* before the node began to answer; so a node that the health check marked
\* inactive is active again one interval after its Ping succeeds.
C19_RecoveredNodeReadded ==
    Settled =>
        \A a \in Watched :
            (GoodForAnInterval(a) /\ modTime < answersSince[a][1]) => IsActive(a)

\* C19's case: the health check marked the node inactive, the node began to
\* answer again, the node file was never modified, and the node is active
\* one configCheck interval later.
C19_Witness ==
    /\ Settled
    /\ \E a \in Watched :
           /\ a \in marked
           /\ modTime = 0
           /\ lastModTime = 0
           /\ listedSince[a] = Some(0)
           /\ answersSince[a] # None
           /\ answersSince[a][1] > 0
           /\ now = answersSince[a][1] + ConfigCheckInterval
           /\ IsActive(a)

\* ------------------------------------------------------------------- HTTP
\* The tokens of requests: "s" and "t".
Tokens == {<<115>>, <<116>>}

\* "Bearer " and "bearer ".
BearerPrefix == <<66, 101, 97, 114, 101, 114, 32>>
LowerPrefix == <<98, 101, 97, 114, 101, 114, 32>>

\* The values r.Header.Get("Authorization") can give: "" for no header, a
\* token alone, and a token after "Bearer ", after "bearer ", after "Bearer"
\* without the space, or after "Bearer " with a byte behind it.
Headers ==
    {EmptyString}
        \cup Tokens
        \cup {BearerPrefix \o t : t \in Tokens}
        \cup {LowerPrefix \o t : t \in Tokens}
        \cup {SubSeq(BearerPrefix, 1, 6) \o t : t \in Tokens}
        \cup {BearerPrefix \o t \o <<120>> : t \in Tokens}

\* The configurations config/config.json can hold.
Configs == {Config(enabled, t) : enabled \in BOOLEAN, t \in Tokens}

\* The test of the header as it would be if it looked for the token at the
\* end of the header only.
RejectsWithoutToken(cfg, authHeader) ==
    /\ cfg.AuthEnabled
    /\ \/ Len(authHeader) < Len(cfg.AuthToken)
       \/ SubSeq(authHeader, Len(authHeader) - Len(cfg.AuthToken) + 1, Len(authHeader))
              # cfg.AuthToken

\* if cfg.AuthEnabled { if authHeader != "Bearer "+cfg.AuthToken { ... } }
Rejects(cfg, authHeader) ==
    /\ cfg.AuthEnabled
    /\ authHeader # BearerPrefix \o cfg.AuthToken

\* The methods, and the routes of the cluster's HTTP server.
Methods == {"GET", "POST", "DELETE", "PUT"}
Routes == {"/set", "/get/", "/delete/", "/nodes", "/nodes/add"}

\* The key of HTTP requests to the store, "a", and to the cluster, "g"; a
\* request can also come without a key.
HttpKeys == {EmptyString, <<97>>}
ClusterHttpKeys == {EmptyString, <<103>>}

\* The address in the body of POST /nodes/add.
NewAddress == "B"

\* A request: the body is JSON of the expected form or it is not.
Request(server, route, method, header, wellFormed, key) ==
    [server |-> server, route |-> route, method |-> method, header |-> header,
     wellFormed |-> wellFormed, key |-> key]

\* History of a request: the status of the answer (0: the handler returned
\* without an answer of its own) and the operation the handler called.
Answered(req, status, op) == Some([req |-> req, status |-> status, op |-> op])

\* What the handlers of this server leave alone.
NoCluster == <<cmNodes, nodesFile, alive, nodeData, cres, memberVars>>
NoStore == <<shards, lastWrite>>
Elsewhere == <<now, nextCleanup, cleanupPos, getPending, ret, walVars, pipeVars, histVars,
               cfgFile, clusterCfg, flushDone>>

\* An answer without any operation.
Refuse(req, status) ==
    /\ http' = Answered(req, status, "none")
    /\ UNCHANGED <<NoCluster, NoStore, Elsewhere>>

\* Handler.ServeHTTP of the standalone server: the config is loaded for the
\* request, the Authorization header is tested when auth is enabled, and the
\* method chooses SetHandler, GetHandler or DeleteHandler.
StandaloneRequest(req) ==
    IF cfgFile = None
    THEN Refuse(req, 0)
    ELSE IF Rejects(cfgFile[1], req.header)
    THEN Refuse(req, 401)
    ELSE IF req.method = "POST"
    THEN IF ~req.wellFormed
         THEN Refuse(req, 400)
         ELSE /\ shards' = [shards EXCEPT ![getShard(req.key)] =
                               SetShard(@, req.key, ClusterValue, 0, now)]
              /\ lastWrite' = [k \in DOMAIN lastWrite |->
                                  IF k = req.key
                                  THEN Some(ValueWithTTL(ClusterValue, SetExpiration(0, now)))
                                  ELSE lastWrite[k]]
              /\ http' = Answered(req, 200, "Set")
              /\ UNCHANGED <<NoCluster, Elsewhere>>
    ELSE IF req.method = "GET"
    THEN LET m == shards[getShard(req.key)].store
         IN  /\ shards' = IF req.key \in DOMAIN m /\ GetExpired(m[req.key], now)
                          THEN [shards EXCEPT ![getShard(req.key)] = DeleteShard(@, req.key)]
                          ELSE shards
             /\ http' = Answered(req, 200, "Get")
             /\ UNCHANGED <<lastWrite, NoCluster, Elsewhere>>
    ELSE IF req.method = "DELETE"
    THEN /\ shards' = [shards EXCEPT ![getShard(req.key)] = DeleteShard(@, req.key)]
         /\ lastWrite' = [k \in DOMAIN lastWrite |-> IF k = req.key THEN None ELSE lastWrite[k]]
         /\ http' = Answered(req, 200, "Delete")
         /\ UNCHANGED <<NoCluster, Elsewhere>>
    ELSE Refuse(req, 405)

\* The answer of a cluster handler after a NodeService call: the status for
\* its error, or none when the call panicked.
AfterCall(req, r, op, onError) ==
    /\ nodeData' = r.stores
    /\ http' = Answered(req, IF r.err = "panic" THEN 0 ELSE IF r.err # "nil" THEN onError ELSE 200,
                        op)
    /\ UNCHANGED <<cmNodes, nodesFile, alive, memberVars, NoStore, Elsewhere>>

\* An entry of the body of POST /set.
SetRequest(key, value, ttl) == [Key |-> key, Value |-> value, TTL |-> ttl]

\* A request to POST /set with its decoded body, a list of entries.
WithBody(req, requests) ==
    [server |-> req.server, route |-> req.route, method |-> req.method, header |-> req.header,
     wellFormed |-> req.wellFormed, key |-> req.key, body |-> requests]

\* handleSet's loop over the entries from the i-th: data[req.Key] = req.Value
\* and ttl = req.TTL.
RECURSIVE Collect(_, _, _, _)
Collect(requests, i, data, ttl) ==
    IF i > Len(requests)
    THEN [data |-> data, ttl |-> ttl]
    ELSE Collect(requests, i + 1, MapPut(data, requests[i].Key, requests[i].Value),
                 requests[i].TTL)

\* handleSet once the body is decoded: the loop, SetData and the response,
\* whose data is the map.  order is the order the map's iteration takes.
handleSet(req, order, out) ==
    \E c \in {Collect(req.body, 1, << >>, 0)} :
    \E r \in {SetDataKeys(order, 1, c.data, c.ttl, now, cmNodes, nodeData, out, << >>)} :
        /\ cres' = Done("set", c.data, EmptyString, r)
        /\ nodeData' = r.stores
        /\ http' = Some([req |-> req,
                         status |-> IF r.err = "panic" THEN 0 ELSE IF r.err # "nil" THEN 500 ELSE 200,
                         op |-> "SetData",
                         data |-> IF r.err = "nil" THEN c.data ELSE << >>])
        /\ UNCHANGED <<cmNodes, nodesFile, alive, memberVars, NoStore, Elsewhere>>

\* handleSet, handleGet, handleDelete, handleNodes and handleAddNode.  order
\* is the order in which SetData's iteration takes the keys of its map.
ClusterHandler(req, order, out) ==
    IF req.route = "/nodes"
    THEN /\ http' = Answered(req, 200, "GetActiveNodes")
         /\ UNCHANGED <<NoCluster, NoStore, Elsewhere>>
    ELSE IF req.method # (CASE req.route = "/get/" -> "GET"
                            [] req.route = "/delete/" -> "DELETE"
                            [] OTHER -> "POST")
    THEN Refuse(req, 405)
    ELSE IF req.route = "/set"
    THEN IF ~req.wellFormed
         THEN Refuse(req, 400)
         ELSE handleSet(req, order, out)
    ELSE IF req.route = "/nodes/add"
    THEN IF ~req.wellFormed
         THEN Refuse(req, 400)
         ELSE /\ IF Listed(nodesFile, NewAddress)
                 THEN UNCHANGED <<nodesFile, modTime>>
                 ELSE nodesFile' = Append(nodesFile, NewAddress) /\ modTime' = now
              /\ cmNodes' = AddNode(cmNodes, NewAddress)
              /\ marked' = marked \ {NewAddress}
              /\ Histories(nodesFile', alive)
              /\ http' = Answered(req, 201, "AddNode")
              /\ UNCHANGED <<alive, nodeData, cres, lastModTime, nextSync, nextHealth, plan,
                             lockVars>>
              /\ UNCHANGED <<NoStore, Elsewhere>>
    ELSE IF req.key = EmptyString
    THEN Refuse(req, 400)
    ELSE IF req.route = "/get/"
    THEN \E got \in {GetNodes(cmNodes, req.key, ReplicaCount)} :
         \E r \in {OnReplicas(got, nodeData,
                              GetDataNodes(got.nodes, 1, req.key, nodeData, out, << >>))} :
             /\ cres' = Done("get", << >>, req.key, r)
             /\ AfterCall(req, r, "GetData", 200)
    ELSE \E got \in {GetNodes(cmNodes, req.key, ReplicaCount)} :
         \E r \in {OnReplicas(got, nodeData,
                              DeleteDataNodes(got.nodes, 1, req.key, nodeData, out, << >>))} :
             /\ cres' = Done("delete", << >>, req.key, r)
             /\ AfterCall(req, r, "DeleteData", 500)

\* authMiddleware around the handler of a route of the cluster's server.
ClusterRequest(req, order, out) ==
    IF Rejects(clusterCfg, req.header)
    THEN Refuse(req, 401)
    ELSE ClusterHandler(req, order, out)

\* The operator rewrites config/config.json, or the file cannot be loaded.
EditConfig(c) ==
    /\ c # cfgFile
    /\ cfgFile' = c
    /\ UNCHANGED <<now, nextCleanup, cleanupPos, getPending, ret, walVars, pipeVars, histVars>>
    /\ UNCHANGED <<NoCluster, NoStore, clusterCfg, http, flushDone>>

\* The state when a request arrives, after main has started both servers
\* with a cluster of the one node A: the store is empty or has the key "a",
\* and the node is empty or has the key "g".
InitHttp ==
    /\ shards \in {NewShards,
                   [NewShards EXCEPT ![getShard(<<97>>)] = SetShard(@, <<97>>, ClusterValue, 0, 0)]}
    /\ now = 0
    /\ nextCleanup = CleanupInterval
    /\ cleanupPos = 0
    /\ getPending = None
    /\ ret = None
    /\ lastWrite = [NoLastWrite EXCEPT ![<<97>>] =
                        IF <<97>> \in DOMAIN shards[getShard(<<97>>)].store
                        THEN Some(ValueWithTTL(ClusterValue, 0))
                        ELSE None]
    /\ walEnabled = FALSE
    /\ isWalRecovery = FALSE
    /\ queue = << >>
    /\ queueClosed = FALSE
    /\ crashed = FALSE
    /\ enqueued = << >>
    /\ held = None
    /\ consumerDone = FALSE
    /\ buffer = << >>
    /\ file = << >>
    /\ tickPending = FALSE
    /\ phase = "open"
    /\ prod = NoProducer
    /\ applied = << >>
    /\ pendingAtClose = None
    /\ closedShards = NewShards
    /\ recovered = None
    /\ damage = None
    /\ nodesFile = <<"A">>
    /\ alive = {"A"}
    /\ cmNodes = AddPinged(<< >>, nodesFile, 1, alive)
    /\ nodeData \in {[a \in Addresses |-> << >>],
                     [a \in Addresses |-> IF a = "A" THEN RPCSet(<< >>, <<103>>, ClusterValue, 0, 0).store
                                                     ELSE << >>]}
    /\ cres = None
    /\ modTime = 0
    /\ lastModTime = -1
    /\ nextSync = ConfigCheckInterval
    /\ nextHealth = HeartbeatInterval
    /\ plan = << >>
    /\ answersSince = [a \in Addresses |-> IF a \in alive \cap Watched THEN Some(0) ELSE None]
    /\ listedSince = [a \in Addresses |-> IF Listed(nodesFile, a) THEN Some(0) ELSE None]
    /\ goneSince = [a \in Addresses |-> IF Listed(nodesFile, a) THEN None ELSE Some(0)]
    /\ marked = {}
    /\ LockIdle
    /\ flushDone = FALSE
    /\ \E c \in Configs : cfgFile = Some(c) /\ clusterCfg = c
    /\ http = None

NextHttp ==
    \/ /\ http = None
       /\ \E method \in Methods, header \in Headers, wellFormed \in BOOLEAN, key \in HttpKeys :
              StandaloneRequest(Request("standalone", "/", method, header, wellFormed, key))
    \/ /\ http = None
       /\ \E route \in Routes, method \in Methods, header \in Headers, wellFormed \in BOOLEAN,
             key \in ClusterHttpKeys :
              \E out \in OutcomesOf(cmNodes, {key}) :
                  ClusterRequest(WithBody(Request("cluster", route, method, header, wellFormed,
                                                  key),
                                          <<SetRequest(key, ClusterValue, 0)>>),
                                 <<key>>, out)
    \/ /\ http = None
       /\ \E c \in {None} \cup {Some(x) : x \in Configs} : EditConfig(c)

SpecHttp == InitHttp /\ [][NextHttp]_vars

\* ------------------------------------------------------ properties of HTTP

\* The configuration in force for the request: the one the cluster's server
\* loaded at its start, or the one the standalone handler loads from the
\* file for the request (None when it cannot).
InForce(server) == IF server = "cluster" THEN Some(clusterCfg) ELSE cfgFile

\* C20: with auth enabled, a request whose Authorization header is not
\* "Bearer " followed by the configured token is answered with 401 and calls
\* no operation of the store or of the cluster, and changes nothing, on
\* each route of the cluster's server and in the standalone handler, with
\* any method and any body.
C20_AuthorizationGate ==
    [][http' # http =>
          LET a == http'[1]
              cfg == InForce(a.req.server)
          IN  (/\ cfg # None
               /\ cfg[1].AuthEnabled
               /\ a.req.header # <<66, 101, 97, 114, 101, 114, 32>> \o cfg[1].AuthToken)
                  => /\ a.status = 401
                     /\ a.op = "none"
                     /\ UNCHANGED <<shards, lastWrite, nodeData, cmNodes, nodesFile, cres>>]_vars

\* C20's case: with auth enabled, a well-formed POST /nodes/add whose header
\* has the right token after "bearer " in lower case was answered with 401,
\* and the address is not in the registry.
C20_Witness ==
    /\ http # None
    /\ http[1].status = 401
    /\ http[1].op = "none"
    /\ http[1].req.server = "cluster"
    /\ clusterCfg.AuthEnabled
    /\ http[1].req.route = "/nodes/add"
    /\ http[1].req.method = "POST"
    /\ http[1].req.wellFormed
    /\ http[1].req.header = LowerPrefix \o clusterCfg.AuthToken
    /\ ~Registered(NewAddress)

\* ------------------------------------------------------------- POST /set
\* The longest body of a POST /set.
MaxBatch == 2

BatchValues == {ClusterValue, <<121>>}
BatchEntries ==
    {SetRequest(k, v, ttl) : k \in ClusterKeys, v \in BatchValues, ttl \in 0..MaxTTL}
Bodies == UNION {[1..n -> BatchEntries] : n \in 0..MaxBatch}

\* The keys of the entries of a body.
KeysOf(requests) == {requests[i].Key : i \in DOMAIN requests}

\* A POST /set with the body arrives at the cluster's server.
PostSet(requests) ==
    /\ http = None
    /\ \E order \in OrdersOf(KeysOf(requests)), out \in OutcomesOf(cmNodes, KeysOf(requests)) :
           ClusterRequest(WithBody(Request("cluster", "/set", "POST", EmptyString, TRUE,
                                           EmptyString),
                                   requests),
                          order, out)

\* The cluster of the nodes A and B, both answering, without auth, at the
\* first or the last second of the run.
InitBatch ==
    /\ shards = NewShards
    /\ now \in {0, MaxTime}
    /\ nextCleanup = CleanupInterval
    /\ cleanupPos = 0
    /\ getPending = None
    /\ ret = None
    /\ lastWrite = NoLastWrite
    /\ walEnabled = FALSE
    /\ isWalRecovery = FALSE
    /\ queue = << >>
    /\ queueClosed = FALSE
    /\ crashed = FALSE
    /\ enqueued = << >>
    /\ held = None
    /\ consumerDone = FALSE
    /\ buffer = << >>
    /\ file = << >>
    /\ tickPending = FALSE
    /\ phase = "open"
    /\ prod = NoProducer
    /\ applied = << >>
    /\ pendingAtClose = None
    /\ closedShards = NewShards
    /\ recovered = None
    /\ damage = None
    /\ nodesFile = <<"A", "B">>
    /\ alive = {"A", "B"}
    /\ cmNodes = AddPinged(<< >>, nodesFile, 1, alive)
    /\ nodeData = [a \in Addresses |-> << >>]
    /\ cres = None
    /\ modTime = 0
    /\ lastModTime = -1
    /\ nextSync = ConfigCheckInterval
    /\ nextHealth = HeartbeatInterval
    /\ plan = << >>
    /\ answersSince = [a \in Addresses |-> IF a \in alive \cap Watched THEN Some(0) ELSE None]
    /\ listedSince = [a \in Addresses |-> IF Listed(nodesFile, a) THEN Some(0) ELSE None]
    /\ goneSince = [a \in Addresses |-> IF Listed(nodesFile, a) THEN None ELSE Some(0)]
    /\ marked = {}
    /\ LockIdle
    /\ flushDone = FALSE
    /\ cfgFile = Some(Config(FALSE, <<115>>))
    /\ clusterCfg = Config(FALSE, <<115>>)
    /\ http = None

NextBatch == \E requests \in Bodies : PostSet(requests)

SpecBatch == InitBatch /\ [][NextBatch]_vars

\* The entry is the only one of the body with its key.
OnlyEntryOfKey(requests, i) ==
    \A j \in DOMAIN requests : requests[j].Key = requests[i].Key => j = i

\* C21: a POST /set answered with 200 has stored, on every node that
\* acknowledged the RPCSet of the key, each entry's key with that entry's own
\* value and with the expiration of that entry's own ttl, and the data of
\* the response are the key/value pairs stored.
C21_BatchSet ==
    [][(http' # http /\ http'[1].op = "SetData" /\ http'[1].status = 200) =>
          LET requests == http'[1].req.body
          IN  /\ \A i \in DOMAIN requests :
                     OnlyEntryOfKey(requests, i) =>
                         \A a \in Addresses :
                             Acknowledged(cres'[1].calls, requests[i].Key, a) =>
                                 /\ requests[i].Key \in DOMAIN nodeData'[a]
                                 /\ nodeData'[a][requests[i].Key]
                                        = ValueWithTTL(requests[i].Value,
                                                       SetExpiration(requests[i].TTL, now))
              /\ DOMAIN http'[1].data = KeysOf(requests)
              /\ \A k \in DOMAIN http'[1].data : \A a \in Addresses :
                     Acknowledged(cres'[1].calls, k, a) =>
                         nodeData'[a][k].Value = http'[1].data[k]]_vars

\* ------------------------------------------ more properties of the store

\* C22: the Delete that a Get issues after it read an expired entry never
\* removes an entry that a Set wrote after the Get's read: an entry that is
\* live (or has no expiration) when that Delete runs stays in the map.
C22_ExpiredReadRace ==
    [][(getPending # None /\ getPending' = None) =>
          LET key == getPending[1].key
          IN  (InMap(key) /\ ~GetExpired(ShardOf(key).store[key], now))
                  => key \in DOMAIN shards'[ShardIndex[key]].store]_vars

\* ------------------------------------------------- replay of a written file
\* The records of the files that are replayed: SET and DELETE on the keys
\* "a" and "d", written at second 0 or 1.
ReplayKeys == LogKeys
ReplayStamps == {0, 1}
ReplayRecords ==
    {SetEntry(k, v, ttl, ts) : k \in ReplayKeys, v \in Values, ttl \in RecoverTTLs,
                               ts \in ReplayStamps}
        \cup {DeleteEntry(k, ts) : k \in ReplayKeys, ts \in ReplayStamps}

\* The files: up to MaxReplayed records, in the order of their timestamps.
ReplayFiles ==
    {f \in UNION {[1..n -> ReplayRecords] : n \in 0..MaxReplayed} :
        \A i, j \in DOMAIN f : i < j => f[i].Timestamp <= f[j].Timestamp}

\* A process starts with wal_enabled = true on the file an earlier process
\* wrote and closed: LoadConfigAndCreateStore is about to call RecoverFromWAL.
InitReplay ==
    \E f \in ReplayFiles, t \in 0..MaxTime :
        /\ \A i \in DOMAIN f : f[i].Timestamp <= t
        /\ shards = NewShards
        /\ now = t
        /\ nextCleanup = t + CleanupInterval
        /\ cleanupPos = 0
        /\ getPending = None
        /\ ret = None
        /\ lastWrite = NoLastWrite
        /\ walEnabled = TRUE
        /\ isWalRecovery = FALSE
        /\ queue = << >>
        /\ queueClosed = TRUE
        /\ crashed = FALSE
        /\ enqueued = << >>
        /\ held = None
        /\ consumerDone = TRUE
        /\ buffer = << >>
        /\ file = encodeAll(Checksummed(f))
        /\ tickPending = FALSE
        /\ phase = "done"
        /\ prod = NoProducer
        /\ applied = << >>
        /\ pendingAtClose = None
        /\ closedShards = NewShards
        /\ recovered = None
        /\ damage = None
        /\ ClusterIdle

NextReplay == Reopen

SpecReplay == InitReplay /\ [][NextReplay]_vars

\* A SET record with ttl > 0 and timestamp + ttl < t.
ExpiredSet(entry, t) ==
    entry.Action = ActionSet /\ entry.TTL > 0 /\ entry.Timestamp + entry.TTL < t

RECURSIVE Folded(_, _, _)
\* The fold of the records over the shards at time t: Set for a SET record
\* and Delete for a DELETE record, the expired SET records left out.
Folded(sh, entries, t) ==
    IF entries = << >> THEN sh
    ELSE LET entry == Head(entries)
         IN  IF ExpiredSet(entry, t)
             THEN Folded(sh, Tail(entries), t)
             ELSE IF entry.Action = ActionSet
             THEN Folded([sh EXCEPT ![getShard(entry.Key)] =
                              SetShard(@, entry.Key, entry.Value, entry.TTL, t)],
                         Tail(entries), t)
             ELSE Folded([sh EXCEPT ![getShard(entry.Key)] = DeleteShard(@, entry.Key)],
                         Tail(entries), t)

\* The last of the records on the key that is not an expired SET, or None.
LastApplied(entries, key, t) ==
    LET at == {i \in DOMAIN entries : entries[i].Key = key /\ ~ExpiredSet(entries[i], t)}
    IN  IF at = {} THEN None
        ELSE Some(entries[CHOOSE i \in at : \A j \in at : j <= i])

\* C23: RecoverFromWAL applies the records in the order of the file, skips a
\* SET record with ttl > 0 and timestamp + ttl < now and applies every other
\* record through Set or Delete; it submits no record to the WAL; the store
\* it leaves is the fold of the records not skipped: a key is in the map if
\* and only if the last such record on it is a SET, with that SET's value.
C23_ReplaySemantics ==
    recovered # None =>
        LET entries == FileEntries(file, 0)
        IN  /\ recovered[1].err = "nil"
            /\ shards = Folded(NewShards, entries, now)
            /\ \A k \in ReplayKeys :
                   LET last == LastApplied(entries, k, now)
                       m == shards[getShard(k)].store
                   IN  IF last # None /\ last[1].Action = ActionSet
                       THEN k \in DOMAIN m /\ m[k].Value = last[1].Value
                       ELSE k \notin DOMAIN m
            /\ queue = << >>
            /\ buffer = << >>
            /\ enqueued = << >>

\* C23's case: replay of a file with a SET of "a" without ttl followed by a
\* SET of "a" with another value whose ttl has expired: the second record
\* was skipped, and "a" has the value of the first.
C23_Witness ==
    /\ recovered # None
    /\ LET entries == FileEntries(file, 0)
       IN  /\ Len(entries) = 2
           /\ entries[1].Action = ActionSet /\ entries[1].Key = <<97>> /\ entries[1].TTL = 0
           /\ entries[2].Action = ActionSet /\ entries[2].Key = <<97>>
           /\ entries[2].Value # entries[1].Value
           /\ ExpiredSet(entries[2], now)
           /\ shards[getShard(<<97>>)].store[<<97>>].Value = entries[1].Value

\* C24: an entry that replay recovers from a SET record with ttl > 0 has the
\* expiration of the original run, the record's timestamp + ttl.
C24_ReplayPreservesExpiration ==
    recovered # None =>
        \A k \in ReplayKeys :
            LET last == LastApplied(FileEntries(file, 0), k, now)
                m == shards[getShard(k)].store
            IN  (last # None /\ last[1].Action = ActionSet /\ last[1].TTL > 0 /\ k \in DOMAIN m)
                    => m[k].Expiration = last[1].Timestamp + last[1].TTL

\* C25: when RecoverFromWAL has returned, with or without an error, the
\* replay flag is false again.
C25_ReplayFlagCleared == recovered # None => ~isWalRecovery

\* The heap has a node that equals n.
InHeap(h, n) == \E j \in 1..Len(h) : h[j] = n

\* C26: Cleanup's step on a shard removes from the heap every node whose
\* expiration is at or before now and deletes the map entry of its key, and
\* it leaves the nodes with later expirations in the heap and their entries
\* in the map.  (Nodes with expiration 0, of entries without ttl, are left
\* aside.)
C26_CleanupStep ==
    [][cleanupPos' # cleanupPos =>
          LET sh == shards[cleanupPos]
              after == shards'[cleanupPos]
          IN  \A j \in 1..Len(sh.heap) :
                  LET n == sh.heap[j]
                  IN  IF n.valueWithTTL.Expiration > now
                      THEN /\ InHeap(after.heap, n)
                           /\ n.key \in DOMAIN sh.store => n.key \in DOMAIN after.store
                      ELSE n.valueWithTTL.Expiration > 0 =>
                               /\ ~InHeap(after.heap, n)
                               /\ n.key \notin DOMAIN after.store]_vars

\* ------------------------------------------- the store with the WAL in use
\* The store of InitRecover in use: Set, Delete, Get and Cleanup on the key
\* "a", for as long as the queue takes the records without the consumer.
NextEmit ==
    \/ \E k \in RecoverKeys, t \in RecoverTTLs :
          Len(enqueued) < BufferSize /\ Set(k, <<120>>, t)
    \/ \E k \in RecoverKeys : Len(enqueued) < BufferSize /\ Delete(k)
    \/ \E k \in RecoverKeys : Len(enqueued) < BufferSize /\ GetRead(k)
    \/ GetDelete
    \/ CleanupStep
    \/ Tick

SpecEmit == InitRecover /\ [][NextEmit]_vars

\* C27: outside replay, a Set submits exactly one SET record, and a Delete
\* exactly one DELETE record, whether the key is present or not; the Delete
\* that Get issues for an expired entry submits one DELETE record; a pass of
\* Cleanup and a Get of a live or absent key submit none.
C27_WalEmission ==
    [][/\ \A k \in RecoverKeys, t \in RecoverTTLs :
              Set(k, <<120>>, t) => enqueued' = Append(enqueued, SetEntry(k, <<120>>, t, now))
       /\ \A k \in RecoverKeys :
              Delete(k) => enqueued' = Append(enqueued, DeleteEntry(k, now))
       /\ GetDelete => enqueued' = Append(enqueued, DeleteEntry(getPending[1].key, now))
       /\ CleanupStep => (enqueued' = enqueued /\ queue' = queue)
       /\ \A k \in RecoverKeys : GetRead(k) => (enqueued' = enqueued /\ queue' = queue)]_vars

\* C27's case: a Get that had read the expired entry of a Set with ttl 1
\* has returned false, and its Delete has submitted the second record, a
\* DELETE of the key.
C27_Witness ==
    /\ Len(enqueued) = 2
    /\ enqueued[1].Action = ActionSet
    /\ enqueued[1].TTL = 1
    /\ enqueued[2] = DeleteEntry(enqueued[1].Key, now)
    /\ ret # None
    /\ ret[1].op = "get"
    /\ ~ret[1].ok
    /\ ret[1].seen # None

\* --------------------------------------------------- the WAL kept running
\* The producers, the consumer and the periodic flush of an open WAL: Close
\* is not called.
NextProgress ==
    \/ \E p \in Producers, k \in LogKeys : ProducerSet(p, k, <<120>>, 0)
    \/ \E p \in Producers, k \in LogKeys : ProducerDelete(p, k)
    \/ \E p \in Producers : ProducerLog(p)
    \/ Dequeue
    \/ Process
    \/ TickerFire
    \/ FlushRun

\* The goroutines of the consumer and of the flush routine are scheduled
\* whenever they can run, the ticker keeps firing, and a producer whose send
\* can proceed is scheduled.
SpecProgress ==
    /\ InitWAL
    /\ [][NextProgress]_vars
    /\ WF_vars(Dequeue)
    /\ WF_vars(Process)
    /\ WF_vars(TickerFire)
    /\ WF_vars(FlushRun)
    /\ \A p \in Producers : WF_vars(ProducerLog(p))

\* The number of records in the file.
Written == Len(FileEntries(file, 0))

\* C28: the producers, the consumer and the flush never come to a stop with
\* work left: again and again no producer is inside Log (a producer blocked
\* on the full queue has proceeded) and every record that Log accepted is in
\* the file.
C28_WalProgress ==
    []<>(/\ \A p \in Producers : prod[p] = None
         /\ Written = Len(enqueued))

\* C28's case: a producer holds its shard's lock and is blocked in Log on
\* the full queue.
C28_Witness ==
    /\ Len(queue) = BufferSize
    /\ \E p \in Producers : prod[p] # None /\ prod[p][1].locked

\* ------------------------------------------- more properties of the WAL
\* C29: no Set or Delete that runs while or after the store is closed sends
\* on the closed queue: the process does not crash in Log.
C29_CloseVersusWrites == ~crashed

\* ------------------------------------------------ calls on the registry
\* The history of a call of AddNode or RemoveNode: the address and the
\* registry before the call.
Called(op, address) == Some([op |-> op, address |-> address, before |-> cmNodes])

\* cm.AddNode(address).
AddNodeCall(address) ==
    /\ cmNodes' = AddNode(cmNodes, address)
    /\ cres' = Called("AddNode", address)
    /\ UNCHANGED <<nodesFile, alive, nodeData, memberVars, httpVars, flushDone>>
    /\ UNCHANGED <<storeVars, walVars, pipeVars, histVars>>

\* cm.RemoveNode(address).
RemoveNodeCall(address) ==
    /\ cmNodes' = RemoveNode(cmNodes, address)
    /\ cres' = Called("RemoveNode", address)
    /\ UNCHANGED <<nodesFile, alive, nodeData, memberVars, httpVars, flushDone>>
    /\ UNCHANGED <<storeVars, walVars, pipeVars, histVars>>

NextRegistry ==
    \/ \E a \in Addresses : AddNodeCall(a)
    \/ \E a \in Addresses : RemoveNodeCall(a)

\* A registry as the health check has left it, and calls of AddNode and
\* RemoveNode on it.
SpecRegistry == InitCluster /\ [][NextRegistry]_vars

\* C30: AddNode of an address the registry holds sets the entry's active flag
\* and keeps its index and its position, the length of the registry and all
\* other entries; AddNode of another address appends one entry, active, with
\* the previous length as index.
C30_AddNode ==
    (cres # None /\ cres[1].op = "AddNode") =>
        LET before == cres[1].before
            a == cres[1].address
        IN  IF \E i \in 1..Len(before) : before[i].Address = a
            THEN /\ Len(cmNodes) = Len(before)
                 /\ \A i \in 1..Len(before) :
                        IF before[i].Address = a
                        THEN cmNodes[i] = Node(a, TRUE, before[i].Index)
                        ELSE cmNodes[i] = before[i]
            ELSE /\ Len(cmNodes) = Len(before) + 1
                 /\ cmNodes[Len(cmNodes)] = Node(a, TRUE, Len(before))
                 /\ \A i \in 1..Len(before) : cmNodes[i] = before[i]

\* C30's case: AddNode was called for the address of an inactive entry that
\* is not the last of the registry, after a RemoveNode had moved the entry,
\* and the entry is active at its position.
C30_Witness ==
    /\ cres # None
    /\ cres[1].op = "AddNode"
    /\ \E i \in 1..(Len(cmNodes) - 1) :
           /\ cres[1].before[i].Address = cres[1].address
           /\ ~cres[1].before[i].Active
           /\ cres[1].before[i].Address # AddressOrder[i]
           /\ cmNodes[i].Active

\* ------------------------------------------- properties of the registry
\* The entry at every position has the position as Index.
Dense(nodes) == \A i \in 1..Len(nodes) : nodes[i].Index = i - 1

\* No address is in two entries.
Distinct(nodes) ==
    \A i, j \in 1..Len(nodes) : nodes[i].Address = nodes[j].Address => i = j

\* C31: the indices of the registry are dense and no address is in two
\* entries; RemoveNode of an address the registry holds takes out that entry
\* alone and renumbers the entries after it, and RemoveNode of another
\* address changes nothing.
C31_RegistryInvariant ==
    /\ Dense(cmNodes)
    /\ Distinct(cmNodes)
    /\ (cres # None /\ cres[1].op = "RemoveNode") =>
           LET before == cres[1].before
               at == {i \in 1..Len(before) : before[i].Address = cres[1].address}
           IN  IF at = {}
               THEN cmNodes = before
               ELSE /\ Len(cmNodes) = Len(before) - 1
                    /\ \A i \in 1..Len(cmNodes) :
                           LET from == IF \E j \in at : j <= i THEN before[i + 1] ELSE before[i]
                           IN  /\ cmNodes[i].Address = from.Address
                               /\ cmNodes[i].Active = from.Active
                               /\ cmNodes[i].Index = i - 1

\* C31's case: RemoveNode took the first of three entries out, and the two
\* that followed it have moved up with the indices 0 and 1.
C31_Witness ==
    /\ cres # None
    /\ cres[1].op = "RemoveNode"
    /\ Len(cres[1].before) = 3
    /\ cres[1].before[1].Address = cres[1].address
    /\ Len(cmNodes) = 2
    /\ cmNodes[1].Address = cres[1].before[2].Address
    /\ cmNodes[2].Index = 1


\* C32: for every key and every number of replicas, GetNodes returns no node
\* more than once.
C32_DistinctReplicas ==
    \A k \in ClusterKeys, r \in Replicas :
        LET got == GetNodes(cmNodes, k, r)
        IN  ~got.panic =>
                \A i, j \in DOMAIN got.nodes :
                    got.nodes[i].Address = got.nodes[j].Address => i = j


\* Every call of the list reached its node and was answered.
AllAnswered(calls) == \A c \in DOMAIN calls : calls[c].outcome = "ok"

\* C33: with every replica reachable and the registry unchanged, a GetData
\* of a key that follows a successful DeleteData of the key, no SetData
\* between them, fails with "no key was found" and returns no value.
C33_DeleteVisible ==
    [][(/\ cres # None
        /\ cres[1].op = "delete"
        /\ cres[1].err = "nil"
        /\ AllAnswered(cres[1].calls)
        /\ Returns("get")
        /\ cres'[1].key = cres[1].key
        /\ AllAnswered(cres'[1].calls))
       => /\ cres'[1].err = "no key was found"
          /\ ~cres'[1].reply.Success]_vars


\* ------------------------------------- more properties of the membership
\* The step is a pass of the health check.
HealthCheckPass == nextHealth' # nextHealth

\* The step is a removal of the config monitor.
MonitorRemoval == plan # << >> /\ Head(plan).do = "remove" /\ plan' = Tail(plan)

\* C34: a pass of the health check sets Active to false for the nodes of the
\* registry whose Ping fails and for no other, and changes nothing else: no
\* node leaves the registry, no Index changes and no node becomes active;
\* a node leaves the registry only in a removal of the config monitor.
C34_HealthCheckEffect ==
    [][/\ HealthCheckPass =>
              /\ Len(cmNodes') = Len(cmNodes)
              /\ \A i \in 1..Len(cmNodes) :
                     /\ cmNodes'[i].Address = cmNodes[i].Address
                     /\ cmNodes'[i].Index = cmNodes[i].Index
                     /\ cmNodes'[i].Active =
                            (cmNodes[i].Active /\ cmNodes[i].Address \in alive)
              /\ UNCHANGED <<nodesFile, alive, nodeData, modTime, lastModTime, nextSync, plan>>
       /\ (\E a \in MemberAddresses : Registered(a) /\ ~Registered(a)') => MonitorRemoval]_vars

\* C34's case: the health check has marked the first node of two inactive,
\* its Ping failing, and the second node, which answers, is active.
C34_Witness ==
    /\ Len(cmNodes) = 2
    /\ cmNodes[1].Address \in marked
    /\ cmNodes[1].Address \notin alive
    /\ ~cmNodes[1].Active
    /\ cmNodes[2].Address \in alive
    /\ cmNodes[2].Active
    /\ cmNodes[2].Index = 1


\* The step is the locked part of a pass of the config monitor.
MonitorPass == nextSync' # nextSync

\* The node file has not been modified since the monitor last observed its
\* modification time.  The monitor runs in the seconds that are multiples of
\* its interval, from the first interval on; a file last modified in another
\* second, and observed with that time, was not modified after that.
Unmodified ==
    /\ lastModTime = modTime
    /\ (modTime = 0 \/ modTime % ConfigCheckInterval # 0)

\* C35: a pass of the config monitor over a node file that has not been
\* modified since the last observed modification time computes no change:
\* no node is pinged and the registry stays as it is.
C35_MonitorNoOp ==
    [][(MonitorPass /\ Unmodified) =>
           /\ plan' = << >>
           /\ cmNodes' = cmNodes
           /\ lastModTime' = lastModTime]_vars


\* C36: an address gets a node in the registry only in a step in which its
\* Ping succeeds, and its node leaves the registry only when the node file
\* does not list the address.
C36_NodeLifecycle ==
    [][\A a \in MemberAddresses :
           /\ (~Registered(a) /\ Registered(a)') => PingNode(a)
           /\ (Registered(a) /\ ~Registered(a)') => ~Listed(nodesFile, a)]_vars


\* ------------------------------------------------ the registry's mutex
\* The ways through the locked part of syncWithConfig: os.Stat fails, the
\* modification time is before LastModTime, the file cannot be opened, read
\* or parsed, or toAdd and toRemove are computed.
Paths == {"stat", "unchanged", "open", "read", "parse", "diff"}

\* syncWithConfig as it would be if the error returns left the mutex locked.
UnlockedOnDiff == {"diff"}

\* The ways on which syncWithConfig calls Unlock before it returns or goes
\* on to apply the changes.
UnlockedOn == Paths

\* What the tasks at the mutex leave alone.
Unlocked == <<nodesFile, alive, nodeData, cres, modTime, nextSync, nextHealth, answersSince,
              listedSince, goneSince, marked, httpVars, flushDone>>
Outside == <<now, LocalStore, walVars, pipeVars, histVars>>

\* syncWithConfig locks the mutex.
MonitorLock ==
    /\ syncPc = "idle"
    /\ mutex = None
    /\ mutex' = Some("monitor")
    /\ syncPc' = "locked"
    /\ unlocks' = 0
    /\ UNCHANGED <<cmNodes, lastModTime, plan, healthPos, Unlocked, Outside>>

\* syncWithConfig under the lock, on one of its ways: the early returns, or
\* LastModTime, toAdd and toRemove; then Unlock.
MonitorDiff(path) ==
    /\ syncPc = "locked"
    /\ path = "unchanged" => SyncSkips(modTime, lastModTime)
    /\ path \notin {"stat", "unchanged"} => ~SyncSkips(modTime, lastModTime)
    /\ lastModTime' = IF path \in {"stat", "unchanged"} THEN lastModTime ELSE modTime
    /\ plan' = IF path = "diff"
               THEN [i \in 1..Len(ToAdd(cmNodes, nodesFile)) |->
                        Step("add", ToAdd(cmNodes, nodesFile)[i])]
                    \o [i \in 1..Len(ToRemove(cmNodes, nodesFile)) |->
                           Step("remove", ToRemove(cmNodes, nodesFile)[i])]
               ELSE << >>
    /\ IF path \in UnlockedOn
       THEN mutex' = None /\ unlocks' = unlocks + 1
       ELSE UNCHANGED <<mutex, unlocks>>
    /\ syncPc' = IF plan' # << >> THEN "apply" ELSE "idle"
    /\ UNCHANGED <<cmNodes, healthPos, Unlocked, Outside>>

\* Where syncWithConfig is after the step of the plan at its head.
AfterStep == IF Tail(plan) # << >> THEN "apply" ELSE "idle"

\* syncWithConfig pings the next address of toAdd.
MonitorPing ==
    /\ syncPc = "apply"
    /\ Head(plan).do = "add"
    /\ IF PingNode(Head(plan).address)
       THEN syncPc' = "add" /\ UNCHANGED plan
       ELSE syncPc' = AfterStep /\ plan' = Tail(plan)
    /\ UNCHANGED <<cmNodes, lastModTime, mutex, healthPos, unlocks, Unlocked, Outside>>

\* syncWithConfig's AddNode of the address whose Ping succeeded: AddNode
\* locks the mutex, changes the registry and unlocks.
MonitorAdd ==
    /\ syncPc = "add"
    /\ mutex = None
    /\ cmNodes' = AddNode(cmNodes, Head(plan).address)
    /\ plan' = Tail(plan)
    /\ syncPc' = AfterStep
    /\ UNCHANGED <<lastModTime, mutex, healthPos, unlocks, Unlocked, Outside>>

\* syncWithConfig's RemoveNode of the next address of toRemove, which locks
\* the mutex, changes the registry and unlocks.
MonitorRemove ==
    /\ syncPc = "apply"
    /\ Head(plan).do = "remove"
    /\ mutex = None
    /\ cmNodes' = RemoveNode(cmNodes, Head(plan).address)
    /\ plan' = Tail(plan)
    /\ syncPc' = AfterStep
    /\ UNCHANGED <<lastModTime, mutex, healthPos, unlocks, Unlocked, Outside>>

\* The health check locks the mutex on its tick.
HealthLock ==
    /\ healthPos = 0
    /\ mutex = None
    /\ mutex' = Some("health")
    /\ healthPos' = 1
    /\ UNCHANGED <<cmNodes, lastModTime, plan, syncPc, unlocks, Unlocked, Outside>>

\* The health check pings the next node of the registry and marks it
\* inactive if the Ping fails.
HealthPing ==
    /\ healthPos \in 1..Len(cmNodes)
    /\ cmNodes' = IF PingNode(cmNodes[healthPos].Address)
                  THEN cmNodes
                  ELSE [cmNodes EXCEPT ![healthPos].Active = FALSE]
    /\ healthPos' = healthPos + 1
    /\ UNCHANGED <<lastModTime, plan, mutex, syncPc, unlocks, Unlocked, Outside>>

\* The health check unlocks the mutex after the last node.
HealthUnlock ==
    /\ healthPos > Len(cmNodes)
    /\ mutex' = None
    /\ healthPos' = 0
    /\ UNCHANGED <<cmNodes, lastModTime, plan, syncPc, unlocks, Unlocked, Outside>>

\* handleAddNode, whose AddNode locks the mutex.
AdminAdd(a) == mutex = None /\ HandleAddNode(a)

\* The operator puts a copy of the node file back that carries an older
\* modification time.
PutBackOlderFile ==
    /\ modTime >= 0
    /\ modTime' = modTime - 1
    /\ UNCHANGED <<cmNodes, nodesFile, alive, nodeData, cres, lastModTime, nextSync, nextHealth,
                   plan, answersSince, listedSince, goneSince, marked, httpVars, flushDone,
                   lockVars>>
    /\ UNCHANGED Outside

NextLocking ==
    \/ MonitorLock
    \/ \E path \in Paths : MonitorDiff(path)
    \/ MonitorPing
    \/ MonitorAdd
    \/ MonitorRemove
    \/ HealthLock
    \/ HealthPing
    \/ HealthUnlock
    \/ \E a \in MemberAddresses : AdminAdd(a)
    \/ \E a \in MemberAddresses : AddToFile(a)
    \/ \E a \in MemberAddresses : RemoveFromFile(a)
    \/ \E a \in MemberAddresses : NodeUp(a)
    \/ \E a \in MemberAddresses : NodeDown(a)
    \/ PutBackOlderFile

SpecLocking == InitMembership /\ [][NextLocking]_vars

\* C37: the config monitor holds the mutex in the locked part of its pass
\* and nowhere else: on every way out of the locked part it has called
\* Unlock once, so its Ping, AddNode and RemoveNode come after the release;
\* and whoever holds the mutex has a step to take.
C37_MonitorLocking ==
    /\ (mutex = Some("monitor")) <=> (syncPc = "locked")
    /\ syncPc = "locked" => unlocks = 0
    /\ syncPc \in {"apply", "add"} => unlocks = 1
    /\ unlocks <= 1
    /\ (mutex = Some("health")) <=> (healthPos # 0)

\* C37's case: the monitor has left the locked part with one Unlock, its
\* Ping has succeeded, and it waits without the mutex for AddNode while the
\* health check holds the mutex.
C37_Witness ==
    /\ syncPc = "add"
    /\ unlocks = 1
    /\ PingNode(Head(plan).address)
    /\ mutex = Some("health")

\* C39: while a Ping of the health check is in progress the health check
\* does not hold the mutex.
C39_HealthCheckLock == healthPos \in 1..Len(cmNodes) => mutex # Some("health")


\* C38: the config monitor removes no node from the registry whose address
\* the node file lists, however its pass interleaves with an admin add that
\* writes the address to the file and calls AddNode.
C38_MonitorVersusAdminAdd ==
    [][\A a \in MemberAddresses :
           (/\ syncPc = "apply"
            /\ Head(plan) = Step("remove", a)
            /\ plan' = Tail(plan)
            /\ Registered(a)
            /\ ~Registered(a)')
           => ~Listed(nodesFile, a)]_vars


\* --------------------------------------------- the end of the WAL's tasks
\* Close and the WAL's tasks, each of which takes its step when it can.
SpecShutdown ==
    /\ InitWAL
    /\ [][NextWAL]_vars
    /\ WF_vars(Dequeue)
    /\ WF_vars(Process)
    /\ WF_vars(ConsumerExit)
    /\ WF_vars(FlushRun)
    /\ WF_vars(CloseStopTicker)
    /\ WF_vars(CloseQueue)
    /\ WF_vars(CloseFinish)

\* C40: once WAL.Close has stopped the ticker, the queue consumer and the
\* periodic flush task both come to their end, unless the process has
\* crashed before.
C40_TasksTerminate == (phase = "stopped") ~> ((consumerDone /\ flushDone) \/ crashed)

====
